---- MODULE Spec2Model ----
(***************************************************************************)
(* Model of the patchsync synchronisation engine (tools/patchsync).        *)
(*                                                                         *)
(* Strings that the code inspects character by character (sheet names,     *)
(* patch ids) are sequences of byte codes, so that trimming, the version   *)
(* prefix pattern and Go's bytewise string order are computed, not         *)
(* tabulated.  Strings the code only copies or compares for equality       *)
(* (game ids, source ids, reward keys) are TLA+ strings.                   *)
(***************************************************************************)
EXTENDS Integers, Sequences, FiniteSets, TLC

(***************************************************************************)
(* Bounds of the model.                                                    *)
(***************************************************************************)
MaxRuns == 2      \* runs of the command line and of POST /sync
MaxEvents == 1    \* upstream edits and failing network, git or file calls
MaxLen == 2       \* length of each list handed to mergePatchesByID alone
MaxCancelAt == 3  \* latest iteration of the sheet loop a run is cancelled in

Nil == "nil"

(***************************************************************************)
(* Byte-level string helpers.                                              *)
(***************************************************************************)
IsDigit(c) == c >= 48 /\ c <= 57
IsSpace(c) == c \in {9, 10, 11, 12, 13, 32}
IsAlnumLower(c) == (c >= 97 /\ c <= 122) \/ IsDigit(c)
ToLower(c) == IF c >= 65 /\ c <= 90 THEN c + 32 ELSE c

RECURSIVE TrimLeft(_)
TrimLeft(s) ==
    IF s = <<>> THEN s
    ELSE IF IsSpace(Head(s)) THEN TrimLeft(Tail(s)) ELSE s

RECURSIVE TrimRight(_)
TrimRight(s) ==
    IF s = <<>> THEN s
    ELSE IF IsSpace(s[Len(s)]) THEN TrimRight(SubSeq(s, 1, Len(s) - 1)) ELSE s

\* strings.TrimSpace
TrimSpace(s) == TrimRight(TrimLeft(s))

\* strings.TrimRight(s, "*")
RECURSIVE TrimRightStars(_)
TrimRightStars(s) ==
    IF s = <<>> THEN s
    ELSE IF s[Len(s)] = 42 THEN TrimRightStars(SubSeq(s, 1, Len(s) - 1)) ELSE s

\* strings.Join(strings.Fields(s), " ") of an already trimmed string:
\* every run of white space becomes one blank.
RECURSIVE CollapseSpaces(_)
CollapseSpaces(s) ==
    IF s = <<>> THEN s
    ELSE IF IsSpace(Head(s))
         THEN <<32>> \o CollapseSpaces(TrimLeft(s))
         ELSE <<Head(s)>> \o CollapseSpaces(Tail(s))

JoinFields(s) == CollapseSpaces(TrimSpace(s))

\* Go's string comparison a < b: bytewise lexicographic.
RECURSIVE StrLess(_, _)
StrLess(a, b) ==
    IF b = <<>> THEN FALSE
    ELSE IF a = <<>> THEN TRUE
    ELSE IF Head(a) # Head(b) THEN Head(a) < Head(b)
    ELSE StrLess(Tail(a), Tail(b))

\* The longest prefix of s made of digits.
RECURSIVE DigitPrefix(_)
DigitPrefix(s) ==
    IF s = <<>> \/ ~IsDigit(Head(s)) THEN <<>>
    ELSE <<Head(s)>> \o DigitPrefix(Tail(s))

\* strconv.Atoi of a string of digits.
RECURSIVE Atoi(_)
Atoi(s) ==
    IF s = <<>> THEN 0
    ELSE Atoi(SubSeq(s, 1, Len(s) - 1)) * 10 + (s[Len(s)] - 48)

\* fmt.Sprintf("%d", n) for n >= 0.
RECURSIVE Itoa(_)
Itoa(n) == IF n < 10 THEN <<48 + n>> ELSE Itoa(n \div 10) \o <<48 + (n % 10)>>

\* main.go:44 normalizeSheetNameForMatch
normalizeSheetNameForMatch(raw) == JoinFields(raw)

\* versionPrefixPattern ^\s*(\d+)\.(\d+) applied to TrimSpace(value):
\* <<major, minor, ok>>.
versionSortKey(value) ==
    LET t == TrimLeft(TrimSpace(value))
        maj == DigitPrefix(t)
        rest == SubSeq(t, Len(maj) + 1, Len(t))
        min == IF rest # <<>> /\ Head(rest) = 46 THEN DigitPrefix(Tail(rest)) ELSE <<>>
    IN  IF maj # <<>> /\ min # <<>>
        THEN <<Atoi(maj), Atoi(min), TRUE>>
        ELSE <<0, 0, FALSE>>

\* normalizePatchName: collapse white space, drop trailing asterisks.
normalizePatchName(raw) == TrimSpace(TrimRightStars(JoinFields(raw)))

\* canonicalPatchID: "<major>.<minor>" when the name has a version prefix.
canonicalPatchID(raw) ==
    LET normalized == normalizePatchName(raw)
        key == versionSortKey(normalized)
    IN  IF key[3] THEN Itoa(key[1]) \o <<46>> \o Itoa(key[2]) ELSE normalized

\* wipTagPattern (?i)(?:^|[^a-z0-9])(?:wip|stc)(?:[^a-z0-9]|$)
wipTagMatch(s) ==
    LET low == [i \in 1..Len(s) |-> ToLower(s[i])]
    IN  \E i \in 1..Len(s) :
           /\ i + 2 <= Len(s)
           /\ SubSeq(low, i, i + 2) \in {<<119, 105, 112>>, <<115, 116, 99>>}
           /\ (i = 1 \/ ~IsAlnumLower(low[i - 1]))
           /\ (i + 2 = Len(s) \/ ~IsAlnumLower(low[i + 3]))

\* patchTagsFromSheetName(values...): <<"WIP">> when one of the values
\* carries the marker, no tags (nil) otherwise.
patchTagsFromSheetName(values) ==
    IF \E i \in 1..Len(values) :
          /\ normalizeSheetNameForMatch(values[i]) # <<>>
          /\ wipTagMatch(normalizeSheetNameForMatch(values[i]))
    THEN <<"WIP">>
    ELSE <<>>


(***************************************************************************)
(* Ordering and de-duplication helpers.                                    *)
(***************************************************************************)
\* The comparator shared by sortVersionStrings and sortPatches: numeric
\* (major, minor) when BOTH strings have a version prefix, Go's string
\* order otherwise.
versionLess(a, b) ==
    LET ka == versionSortKey(a)
        kb == versionSortKey(b)
    IN  IF ka[3] /\ kb[3]
        THEN IF ka[1] # kb[1] THEN ka[1] < kb[1] ELSE ka[2] < kb[2]
        ELSE StrLess(a, b)

\* sort.Slice on at most 12 elements is an insertion sort: element i moves
\* left while it is less than its left neighbour.
RECURSIVE insertVersionString(_, _)
insertVersionString(sorted, x) ==
    IF sorted = <<>> THEN <<x>>
    ELSE IF versionLess(x, sorted[Len(sorted)])
         THEN Append(insertVersionString(SubSeq(sorted, 1, Len(sorted) - 1), x),
                     sorted[Len(sorted)])
         ELSE Append(sorted, x)

RECURSIVE sortVersionStrings(_)
sortVersionStrings(values) ==
    IF values = <<>> THEN <<>>
    ELSE insertVersionString(
             sortVersionStrings(SubSeq(values, 1, Len(values) - 1)),
             values[Len(values)])

RECURSIVE insertPatch(_, _)
insertPatch(sorted, x) ==
    IF sorted = <<>> THEN <<x>>
    ELSE IF versionLess(x.patch, sorted[Len(sorted)].patch)
         THEN Append(insertPatch(SubSeq(sorted, 1, Len(sorted) - 1), x),
                     sorted[Len(sorted)])
         ELSE Append(sorted, x)

RECURSIVE sortPatches(_)
sortPatches(patches) ==
    IF patches = <<>> THEN <<>>
    ELSE insertPatch(sortPatches(SubSeq(patches, 1, Len(patches) - 1)),
                     patches[Len(patches)])

\* uniqueSheetNames: drops blank names and later names whose trimmed form
\* was seen; keeps the first occurrence untrimmed.
RECURSIVE uniqueSheetNames(_)
uniqueSheetNames(input) ==
    IF input = <<>> THEN <<>>
    ELSE LET rest == uniqueSheetNames(SubSeq(input, 1, Len(input) - 1))
             item == input[Len(input)]
             key == TrimSpace(item)
         IN  IF key = <<>> \/ \E i \in 1..Len(rest) : TrimSpace(rest[i]) = key
             THEN rest
             ELSE Append(rest, item)

\* uniqueStrings: trims, drops blanks and repetitions.
RECURSIVE uniqueStrings(_)
uniqueStrings(input) ==
    IF input = <<>> THEN <<>>
    ELSE LET rest == uniqueStrings(SubSeq(input, 1, Len(input) - 1))
             item == TrimSpace(input[Len(input)])
         IN  IF item = <<>> \/ \E i \in 1..Len(rest) : rest[i] = item
             THEN rest
             ELSE Append(rest, item)

Range(s) == {s[i] : i \in 1..Len(s)}

(***************************************************************************)
(* Game profiles.                                                          *)
(***************************************************************************)
gameIDEndfield == "arknights-endfield"
gameIDWuwa == "wuthering-waves"
gameIDZzz == "zenless-zone-zero"
gameIDGenshin == "genshin-impact"
gameIDHsr == "honkai-star-rail"
defaultGameID == gameIDEndfield

availableGameIDs ==
    <<gameIDEndfield, gameIDWuwa, gameIDZzz, gameIDGenshin, gameIDHsr>>

Games == Range(availableGameIDs)

\* resolveGameProfile: the empty id means the default game, an id outside
\* the profile table is a configuration error (Nil).
resolveGameProfile(gameID) ==
    IF gameID = "" THEN defaultGameID
    ELSE IF gameID \in Games THEN gameID ELSE Nil

\* The games whose authoritative pull counts come from a "Data" sheet.
UsesDataSheet(game) ==
    game \in {gameIDEndfield, gameIDWuwa, gameIDZzz, gameIDHsr}

(***************************************************************************)
(* Rewards: the canonical resource record and its per-game serialisation.  *)
(***************************************************************************)
RewardFields ==
    {"oroberyl", "origeometry", "chartered", "basic",
     "firewalker", "messenger", "hues", "arsenal"}

zeroRewards == [f \in RewardFields |-> 0]

\* rewardsForGame: the map written to the generated file.
rewardsForGame(r, gameID) ==
    LET timedPermits == r.firewalker + r.messenger + r.hues
    IN  CASE gameID = gameIDWuwa ->
               [astrite |-> r.oroberyl, lunite |-> r.origeometry,
                forgingToken |-> r.arsenal, radiantTide |-> r.chartered,
                lustrousTide |-> r.basic, forgingTide |-> timedPermits]
          [] gameID = gameIDZzz ->
               [polychrome |-> r.oroberyl, monochrome |-> r.origeometry,
                boopon |-> r.arsenal,
                encryptedMasterTape |-> r.chartered + timedPermits,
                masterTape |-> r.basic]
          [] gameID = gameIDGenshin ->
               [primogem |-> r.oroberyl, genesisCrystal |-> r.origeometry,
                starglitter |-> r.arsenal,
                intertwinedFate |-> r.chartered + timedPermits,
                acquaintFate |-> r.basic]
          [] gameID = gameIDHsr ->
               [stellarJade |-> r.oroberyl, oneiricShard |-> r.origeometry,
                tracksOfDestiny |-> r.arsenal,
                specialPass |-> r.chartered + timedPermits,
                railPass |-> r.basic]
          [] OTHER ->
               [oroberyl |-> r.oroberyl, origeometry |-> r.origeometry,
                chartered |-> r.chartered, basic |-> r.basic,
                firewalker |-> r.firewalker, messenger |-> r.messenger,
                hues |-> r.hues, arsenal |-> r.arsenal]

\* addMappedValue: the canonical field a key of the file adds to (the keys
\* are compared after normalizeRewardKey, i.e. in lower case), Nil when the
\* key is ignored.
addMappedValue(key) ==
    CASE key \in {"oroberyl", "astrite", "polychrome", "primogem", "stellarJade"}
           -> "oroberyl"
      [] key \in {"origeometry", "lunite", "monochrome", "genesisCrystal", "oneiricShard"}
           -> "origeometry"
      [] key \in {"chartered", "radiantTide", "encryptedMasterTape", "intertwinedFate",
                  "specialPass"}
           -> "chartered"
      [] key \in {"basic", "lustrousTide", "masterTape", "acquaintFate", "railPass"}
           -> "basic"
      [] key \in {"firewalker", "forgingTide"} -> "firewalker"
      [] key = "messenger" -> "messenger"
      [] key = "hues" -> "hues"
      [] key \in {"arsenal", "forgingToken", "boopon", "starglitter", "tracksOfDestiny"}
           -> "arsenal"
      [] OTHER -> Nil

RECURSIVE SumOver(_, _)
SumOver(keys, raw) ==
    IF keys = {} THEN 0
    ELSE LET k == CHOOSE x \in keys : TRUE
         IN  raw[k] + SumOver(keys \ {k}, raw)

\* Rewards.UnmarshalJSON: every key of the file's map is added to the field
\* it maps to.
UnmarshalRewards(raw) ==
    [f \in RewardFields |->
        SumOver({k \in DOMAIN raw : addMappedValue(k) = f}, raw)]

(***************************************************************************)
(* Patches in memory and in the generated file.                            *)
(*                                                                         *)
(* A Patch is [id, patch, durationDays, tags, notes, sources]; a Source is *)
(* [id, gate, countInPulls, pulls, rewards, scalers].  pulls is <<>> (a    *)
(* nil pointer, no explicit count) or <<n>>, a count in hundredths of a    *)
(* pull; scalers is a sequence.  The fields the code only copies (label,   *)
(* option key, costs, version name, start date) are left out.              *)
(***************************************************************************)
\* source(): the constructor every parser uses.
source(id, gate, countInPulls, rewards) ==
    [id |-> id, gate |-> gate, countInPulls |-> countInPulls, pulls |-> <<>>,
     rewards |-> rewards, scalers |-> <<>>]

toGeneratedSource(src, gameID) ==
    [id |-> src.id, gate |-> src.gate, countInPulls |-> src.countInPulls,
     pulls |-> src.pulls,
     rewards |-> rewardsForGame(src.rewards, gameID),
     scalers |-> [i \in 1..Len(src.scalers) |->
                    [src.scalers[i] EXCEPT !.rewards = rewardsForGame(@, gameID)]]]

\* toGeneratedPatch: what writeGeneratedFile serialises for one patch.
toGeneratedPatch(patch, gameID) ==
    [id |-> patch.id, patch |-> patch.patch, durationDays |-> patch.durationDays,
     tags |-> patch.tags, notes |-> patch.notes,
     sources |-> [i \in 1..Len(patch.sources) |->
                    toGeneratedSource(patch.sources[i], gameID)]]

\* json.Unmarshal of one element of GENERATED_PATCHES into a Patch.
fromGeneratedPatch(gp) ==
    [id |-> gp.id, patch |-> gp.patch, durationDays |-> gp.durationDays,
     tags |-> gp.tags, notes |-> gp.notes,
     sources |-> [i \in 1..Len(gp.sources) |->
        [id |-> gp.sources[i].id,
         gate |-> gp.sources[i].gate,
         countInPulls |-> gp.sources[i].countInPulls,
         pulls |-> gp.sources[i].pulls,
         rewards |-> UnmarshalRewards(gp.sources[i].rewards),
         scalers |-> [j \in 1..Len(gp.sources[i].scalers) |->
                        [gp.sources[i].scalers[j] EXCEPT
                           !.rewards = UnmarshalRewards(@)]]]]]

\* The generated file: NoFile, or the serialised patches and GeneratedMeta.
NoFile == [exists |-> FALSE]

\* readGeneratedPatches: no file, no patches.
readGeneratedPatches(file) ==
    IF ~file.exists THEN <<>>
    ELSE [i \in 1..Len(file.patches) |-> fromGeneratedPatch(file.patches[i])]

\* writeGeneratedFile: the content written for the merged patches and meta.
writeGeneratedFile(patches, meta) ==
    [exists |-> TRUE,
     patches |-> [i \in 1..Len(patches) |-> toGeneratedPatch(patches[i], meta.gameId)],
     meta |-> meta]

(***************************************************************************)
(* The upstream spreadsheet.                                               *)
(*                                                                         *)
(* A tab is in one of five conditions: two readable contents that differ   *)
(* in the first reward row and in the title cell, a tab that cannot be     *)
(* fetched as CSV, a tab without a version-length cell, and a tab for      *)
(* whose version the authoritative Data / Summary sheet has no entry.      *)
(***************************************************************************)
SheetContents == {"v1", "v2", "unreachable", "noDuration", "notInData"}

\* fetchSheetCSV succeeds.
Fetchable(content) == content # "unreachable"

\* The number next to the "version length" marker (0: none found).
DurationCell(content) == IF content = "noDuration" THEN 0 ELSE 42

\* The title cell of the first row: "(WIP)" in the second content.
TitleCell(content) == IF content = "v2" THEN <<40, 87, 73, 80, 41>> ELSE <<>>

\* The cells 1..11 of the two reward rows, already read by parseNumber.
SheetRows(content) ==
    IF content = "v2"
    THEN << <<320, 1, 2, 3, 4, 0, 0, 0, 320, 5, 6>>,
            <<160, 0, 0, 1, 0, 0, 0, 0, 160, 0, 1>> >>
    ELSE << <<160, 1, 2, 3, 4, 0, 0, 0, 160, 5, 6>>,
            <<160, 0, 0, 1, 0, 0, 0, 0, 160, 0, 1>> >>

\* The Data sheet's entry for a patch, as parseDataSheetPulls returns it:
\* the pull count (in hundredths) by source id; here 2.5 pulls for the
\* "events" row and no totals row.
DataSheetPulls == [id \in {"events"} |-> 250]

\* lookupSourcePullsByPatchName: the authoritative sheet is searched by
\* exact name, then by normalised name, then by (major, minor), so the tabs
\* of one version share its entry.
lookupSourcePullsByPatchName(conditions, patchName) ==
    LET key == versionSortKey(patchName)
        sameEntry(sheetName) ==
            \/ normalizePatchName(sheetName) = normalizePatchName(patchName)
            \/ (key[3] /\ versionSortKey(sheetName) = key)
    IN  \A sheetName \in DOMAIN conditions :
           sameEntry(sheetName) => conditions[sheetName] # "notInData"

(***************************************************************************)
(* Per-game parsers.                                                       *)
(***************************************************************************)
\* rowFromRecord (Endfield, implicit column order), parseWuwaRewards,
\* parseZzzRewards, parseHsrRewards, parseGenshinGachaRewards.
parseRewards(game, record) ==
    CASE game = gameIDWuwa ->
           [zeroRewards EXCEPT !.oroberyl = record[1], !.chartered = record[2],
                               !.firewalker = record[3], !.basic = record[4]]
      [] game = gameIDZzz ->
           [zeroRewards EXCEPT !.oroberyl = record[1], !.chartered = record[2],
                               !.basic = record[3], !.arsenal = record[4]]
      [] game = gameIDHsr ->
           [zeroRewards EXCEPT !.oroberyl = record[1], !.chartered = record[2],
                               !.basic = record[3]]
      [] game = gameIDGenshin ->
           [zeroRewards EXCEPT !.oroberyl = record[9], !.basic = record[10],
                               !.chartered = record[11]]
      [] OTHER ->
           [zeroRewards EXCEPT !.oroberyl = record[1], !.chartered = record[2],
                               !.basic = record[3], !.origeometry = record[4],
                               !.arsenal = record[5]]

\* The first two entries of each profile's fixed source list.
ProfileSourceIDs(game) ==
    CASE game = gameIDGenshin -> <<"events", "other">>
      [] game = gameIDHsr -> <<"dailyTraining", "weeklyModes">>
      [] OTHER -> <<"events", "permanent">>

ProfileNotes(game) ==
    CASE game = gameIDWuwa -> "Generated from Wuthering Waves Google Sheets by patchsync"
      [] game = gameIDZzz -> "Generated from Zenless Zone Zero Google Sheets by patchsync"
      [] game = gameIDGenshin -> "Generated from Genshin Impact Google Sheets by patchsync"
      [] game = gameIDHsr -> "Generated from Honkai: Star Rail Google Sheets by patchsync"
      [] OTHER -> "Generated from Google Sheets by patchsync"

\* The patch id a profile derives from the tab name.
ProfilePatchID(game, sheetName) ==
    IF game \in {gameIDEndfield, gameIDGenshin}
    THEN canonicalPatchID(sheetName)
    ELSE normalizePatchName(sheetName)

\* Only the Endfield profile tags a patch from the tab name and title cell.
ProfileTags(game, sheetName, content) ==
    IF game # gameIDEndfield THEN <<>>
    ELSE patchTagsFromSheetName(<<sheetName, TitleCell(content)>>)

\* The duration parseSheetToPatchGenshin falls back to.
genshinDefaultDurationDays == 42

\* A parser that substitutes the fallback duration for no game.
durationDaysNoDefault(game, content) == DurationCell(content)

\* The durationDays of a parser after its search of the sheet: the Genshin
\* parser substitutes 42 when it found none, the others keep the 0.
durationDays(game, content) ==
    IF DurationCell(content) <= 0 /\ game = gameIDGenshin
    THEN genshinDefaultDurationDays
    ELSE DurationCell(content)

\* profile.ParseSheet(sheetName, csvText): fails when durationDays is not
\* positive.
ParseSheet(game, sheetName, content) ==
    IF durationDays(game, content) <= 0 THEN [ok |-> FALSE]
    ELSE LET pid == ProfilePatchID(game, sheetName)
             ids == ProfileSourceIDs(game)
             rows == SheetRows(content)
         IN  [ok |-> TRUE,
              patch |->
                [id |-> pid, patch |-> pid,
                 durationDays |-> durationDays(game, content),
                 tags |-> ProfileTags(game, sheetName, content),
                 notes |-> ProfileNotes(game),
                 sources |-> [i \in 1..Len(ids) |->
                                source(ids[i], "always", TRUE,
                                       parseRewards(game, rows[i]))]]]

\* roundToTenth on a count in hundredths: math.Round rounds half away from
\* zero.
roundToTenth(v) ==
    IF v >= 0 THEN ((v + 5) \div 10) * 10 ELSE 0 - (((0 - v) + 5) \div 10) * 10

absFloat(v) == IF v < 0 THEN 0 - v ELSE v

\* genshinPullsFromRewards, in hundredths (exact when the currency is a
\* multiple of 8).
genshinPullsFromRewards(r) == (r.oroberyl * 100) \div 160 + r.chartered * 100

\* The f2pSourceIDs of each resolver.
f2pSourceIDs(game) ==
    CASE game = gameIDWuwa ->
           {"events", "permanent", "mailbox", "dailyActivity", "endgameModes",
            "coralShop", "weaponPulls"}
      [] game = gameIDHsr ->
           {"dailyTraining", "weeklyModes", "treasuresLightward", "embersStore",
            "travelLogEvents", "permanent", "mailbox"}
      [] game = gameIDZzz ->
           {"events", "permanent", "mailbox", "errands", "hollowZero",
            "f2pBattlePass", "shop24h", "endgameModes"}
      [] game = gameIDGenshin ->
           {"events", "other", "webMail", "dailyActivity", "expeditions",
            "parametric", "weekly", "serenitea", "endgame", "shop", "bpF2P",
            "repeatingOther"}
      [] OTHER -> {}

\* The source each resolver adjusts.
adjustSourceID(game) ==
    CASE game = gameIDHsr -> "permanent"
      [] game = gameIDGenshin -> "endgame"
      [] OTHER -> "endgameModes"

\* sum += pulls over the sources a resolver counts.
RECURSIVE SumSeq(_)
SumSeq(values) == IF values = <<>> THEN 0 ELSE Head(values) + SumSeq(Tail(values))

SumPulls(sources, counted(_), pullsOf(_)) ==
    SumSeq([i \in 1..Len(sources) |->
               IF counted(sources[i]) THEN pullsOf(sources[i]) ELSE 0])

\* The second half of applyWuwa-, applyHsr- and applyZzzDataPullOverrides:
\* the difference between the published F2P total and the sum of the
\* explicit pull counts of the F2P sources is added to the adjusted source.
reconcile(game, sources, total) ==
    LET counted(src) == src.pulls # <<>> /\ src.countInPulls
                        /\ src.id \in f2pSourceIDs(game)
        pullsOf(src) == src.pulls[1]
        delta == total - SumPulls(sources, counted, pullsOf)
        id == adjustSourceID(game)
        at == {i \in 1..Len(sources) : sources[i].id = id}
    IN  IF delta = 0 \/ at = {} THEN sources
        ELSE LET idx == CHOOSE i \in at : \A j \in at : j <= i
                 base == IF sources[idx].pulls # <<>> THEN sources[idx].pulls[1] ELSE 0
             IN  [sources EXCEPT ![idx].pulls = <<roundToTenth(base + delta)>>]

\* A faulty resolver: the entry of the patch is found and not applied.
applyNoOverrides(game, patch, sourcePulls) == patch

\* apply<Game>DataPullOverrides on the entry found for the patch: every
\* source named by the entry gets its pull count, the totals rows the
\* resolver knows are passed over, and (not for Endfield) the F2P total is
\* reconciled.
applyDataPullOverrides(game, patch, sourcePulls) ==
    LET totals == IF game \in {gameIDWuwa, gameIDZzz} THEN {"__totalF2P"}
                  ELSE {"__totalF2P", "__totalPaid"}
        lastOf(id) == CHOOSE i \in 1..Len(patch.sources) :
                         /\ patch.sources[i].id = id
                         /\ \A j \in (i + 1)..Len(patch.sources) :
                               patch.sources[j].id # id
        overridden ==
            [i \in 1..Len(patch.sources) |->
                LET id == patch.sources[i].id
                IN  IF id \in DOMAIN sourcePulls /\ id \notin totals /\ lastOf(id) = i
                    THEN [patch.sources[i] EXCEPT
                            !.pulls = <<roundToTenth(sourcePulls[id])>>]
                    ELSE patch.sources[i]]
    IN  [patch EXCEPT !.sources =
            IF game # gameIDEndfield /\ "__totalF2P" \in DOMAIN sourcePulls
            THEN reconcile(game, overridden, sourcePulls["__totalF2P"])
            ELSE overridden]

\* The sum applyGenshinSummaryPullOverrides compares with the Summary
\* total: reward-derived pulls unless a source has an explicit count.
genshinF2PSum(sources) ==
    LET counted(src) == src.countInPulls /\ src.gate = "always"
                        /\ src.id \in f2pSourceIDs(gameIDGenshin)
        pullsOf(src) == IF src.pulls # <<>> THEN src.pulls[1]
                        ELSE genshinPullsFromRewards(src.rewards)
    IN  SumPulls(sources, counted, pullsOf)

\* applyGenshinSummaryPullOverrides on the total found for the patch.
applyGenshinSummaryPullOverrides(patch, total) ==
    LET ids == [i \in 1..Len(patch.sources) |-> patch.sources[i].id]
        delta == total - genshinF2PSum(patch.sources)
        candidates == <<"endgame", "events", "other", "webMail", "dailyActivity", "shop">>
        found == {k \in 1..Len(candidates) : candidates[k] \in Range(ids)}
    IN  IF absFloat(delta) < 5 THEN [ok |-> TRUE, patch |-> patch]
        ELSE IF found = {} THEN [ok |-> FALSE]
        ELSE LET id == candidates[CHOOSE k \in found : \A m \in found : k <= m]
                 idx == CHOOSE i \in 1..Len(ids) :
                           ids[i] = id /\ \A j \in (i + 1)..Len(ids) : ids[j] # id
                 src == patch.sources[idx]
                 base == IF src.pulls # <<>> THEN src.pulls[1]
                         ELSE genshinPullsFromRewards(src.rewards)
             IN  [ok |-> TRUE,
                  patch |-> [patch EXCEPT
                               !.sources[idx].pulls = <<roundToTenth(base + delta)>>]]

\* The override step of the sheet loop: an error when the authoritative
\* sheet has no entry for the patch.  The Summary sheet of the model's
\* spreadsheets publishes the total of the tab's own rows.
ApplyOverrides(game, patch, conditions) ==
    IF ~lookupSourcePullsByPatchName(conditions, patch.patch) THEN [ok |-> FALSE]
    ELSE IF game = gameIDGenshin
    THEN applyGenshinSummaryPullOverrides(patch,
                                          roundToTenth(genshinF2PSum(patch.sources)))
    ELSE [ok |-> TRUE, patch |-> applyDataPullOverrides(game, patch, DataSheetPulls)]

(***************************************************************************)
(* Comparison and merge.                                                   *)
(***************************************************************************)
\* patchComparableValue: everything but the notes, strings trimmed.
patchComparableValue(patch) ==
    [id |-> TrimSpace(patch.id), patch |-> TrimSpace(patch.patch),
     durationDays |-> patch.durationDays, tags |-> patch.tags,
     sources |-> patch.sources]

\* patchesEquivalent: equal JSON of the comparable values.
patchesEquivalent(left, right) ==
    patchComparableValue(left) = patchComparableValue(right)

\* patchIDOrFallback
patchIDOrFallback(patch) ==
    IF TrimSpace(patch.patch) # <<>> THEN TrimSpace(patch.patch)
    ELSE TrimSpace(patch.id)

\* sourcesEquivalent: equal JSON of the two sources.
sourcesEquivalent(left, right) == left = right

\* sourceByID: the last source of each id.
sourceByID(patch) ==
    [id \in {patch.sources[i].id : i \in 1..Len(patch.sources)} |->
        LET last == CHOOSE i \in 1..Len(patch.sources) :
                       /\ patch.sources[i].id = id
                       /\ \A j \in (i + 1)..Len(patch.sources) :
                             patch.sources[j].id # id
        IN  patch.sources[last]]

\* changedSourceIDs, as the set of the ids it lists.
changedSourceIDs(previous, next) ==
    LET previousSources == sourceByID(previous)
        nextSources == sourceByID(next)
    IN  {id \in DOMAIN previousSources \cup DOMAIN nextSources :
            \/ id \notin DOMAIN previousSources
            \/ id \notin DOMAIN nextSources
            \/ ~sourcesEquivalent(previousSources[id], nextSources[id])}

\* The ids of a list in order of first appearance.
RECURSIVE FirstAppearance(_)
FirstAppearance(ps) ==
    IF ps = <<>> THEN <<>>
    ELSE LET rest == FirstAppearance(SubSeq(ps, 1, Len(ps) - 1))
             id == ps[Len(ps)].id
         IN  IF id \in Range(rest) THEN rest ELSE Append(rest, id)

\* A faulty merge: the previously generated patches are forgotten.
mergeAdditionsOnly(existing, additions) == sortPatches(additions)

\* A faulty merge: the two lists are put together without regard to ids.
mergeAppend(existing, additions) == sortPatches(existing \o additions)

\* mergePatchesByID: per id the last record of existing followed by
\* additions, in order of first appearance, then sorted.
mergePatchesByID(existing, additions) ==
    LET kept == SelectSeq(existing \o additions,
                          LAMBDA p : TrimSpace(p.id) # <<>>)
        order == FirstAppearance(kept)
        byID(id) == LET last == CHOOSE i \in 1..Len(kept) :
                                   /\ kept[i].id = id
                                   /\ \A j \in (i + 1)..Len(kept) : kept[j].id # id
                    IN  kept[last]
    IN  sortPatches([i \in 1..Len(order) |-> byID(order[i])])

(***************************************************************************)
(* The tabs of the modelled spreadsheets and the inputs of a run.          *)
(***************************************************************************)
Sheet10 == <<49, 46, 48>>                               \* "1.0"
Sheet10STC == <<49, 46, 48, 32, 40, 83, 84, 67, 41>>    \* "1.0 (STC)"
Sheet11 == <<49, 46, 49>>                               \* "1.1"

SheetUniverse == {Sheet10, Sheet10STC, Sheet11}

\* The --sheet-names lists a command-line run is started with (without the
\* flag the run is configured as a POST /sync run is).
ExplicitLists == {<<Sheet10>>, <<Sheet11, Sheet10>>}

\* The sheetNames lists a POST /sync body carries.
RequestLists == {<<>>, <<Sheet10>>}

\* The version-like tab lists a spreadsheet can have.
TabLists == {<<Sheet10, Sheet10STC, Sheet11>>, <<Sheet11>>}

\* The ids src/data/patches.js holds (readPatchIDsFromFile).
BasePatchIDs == {Sheet10}

(***************************************************************************)
(* State.                                                                  *)
(***************************************************************************)
VARIABLES
    flags,      \* the command line of the process: --game, --skip-existing
    upstream,   \* per game, the condition of every tab of its spreadsheet
    tabs,       \* per game, the version-like tab names its spreadsheet lists
    events,     \* upstream edits and failed calls so far
    files,      \* per game, the generated file at the default output path
    changeLog,  \* the records of table-changes.jsonl
    branches,   \* the branches created by git checkout -b, oldest first
    clock,      \* wall clock, one tick per run
    run,        \* the runSync invocation in progress or just finished
    all,        \* the /sync-all handler in progress or just finished
    lists,      \* two patch lists and, once merged, mergePatchesByID of them
    http,       \* the serve-mode configuration, the last request and its response
    calc,       \* the arguments and, once evaluated, the result of a function
    peer,       \* a second runSync invocation, overlapping with run
    disc        \* a discoverSheetNames call and the published-sheet cache

vars == <<flags, upstream, tabs, events, files, changeLog, branches, clock, run,
          all, lists, http, calc, peer, disc>>

IdleRun ==
    [pc |-> "idle", entry |-> Nil, request |-> [sheetNames |-> <<>>], cfg |-> Nil,
     explicit |-> FALSE, discoveryCalls |-> 0,
     sheetNames |-> <<>>, idx |-> 1, fetched |-> <<>>,
     existingGenerated |-> <<>>, existingByID |-> <<>>, basePatchIDs |-> {},
     patches |-> <<>>, parsedSheetNames |-> <<>>, skippedPatches |-> <<>>,
     changeEntries |-> <<>>, validPatchRows |-> 0,
     branchName |-> 0, allPatches |-> <<>>, generatedAt |-> 0,
     result |-> Nil, err |-> Nil, logFailed |-> FALSE,
     effects |-> <<>>, upstreamAtStart |-> Nil, cancelAt |-> 0]

IdleAll == [pc |-> "idle", cfg |-> Nil, next |-> 1, results |-> <<>>,
            allOK |-> TRUE, response |-> [sent |-> FALSE]]

NoRequest == [method |-> "", path |-> "", origin |-> "", token |-> "",
              body |-> [valid |-> TRUE, gameId |-> "", dryRun |-> FALSE]]

IdleHttp == [server |-> [allowedOrigins |-> {}, authToken |-> ""],
             served |-> FALSE, request |-> NoRequest, status |-> 0]

NoCalc == [fn |-> Nil, done |-> FALSE]

NoLists == [existing |-> <<>>, additions |-> <<>>, merged |-> FALSE, out |-> <<>>]

AllV1 == [g \in Games |-> [sh \in SheetUniverse |-> "v1"]]

InitCommon ==
    /\ upstream = AllV1
    /\ events = 0
    /\ files = [g \in Games |-> NoFile]
    /\ changeLog = <<>>
    /\ branches = <<>>
    /\ clock = 0
    /\ run = IdleRun
    /\ all = IdleAll

\* The answer to a request that failed.
NoPage == [ok |-> FALSE, names |-> <<>>]

\* No discoverSheetNames call has been made; publishedSheetGIDCache is empty.
IdleDisc ==
    [pc |-> "idle", feed |-> NoPage, html |-> NoPage, collected |-> <<>>,
     requests |-> <<>>, task |-> <<>>, results |-> <<>>, majorSet |-> {},
     at |-> 0, minor |-> 0, missStreak |-> 0, names |-> <<>>, probes |-> <<>>,
     cache |-> <<>>, calls |-> <<>>, landings |-> <<>>]

InitCommand ==
    /\ http = IdleHttp
    /\ calc = NoCalc
    /\ peer = IdleRun
    /\ disc = IdleDisc

Init ==
    /\ flags \in [game : Games, skipExisting : BOOLEAN]
    /\ \E names \in TabLists : tabs = [g \in Games |-> names]
    /\ lists = NoLists
    /\ InitCommon
    /\ InitCommand

(***************************************************************************)
(* Building the SyncConfig of a run.                                       *)
(***************************************************************************)
\* main(): defaultCfg from the flags.
DefaultConfig(sheetNames, createBranch, dryRun) ==
    [gameID |-> flags.game, sheetNames |-> uniqueSheetNames(sheetNames),
     createBranch |-> createBranch, skipExisting |-> flags.skipExisting,
     dryRun |-> dryRun]

\* The /sync handler: cfg := defaultCfg, overridden from the request body.
SyncRequestConfig(defaultCfg, req) ==
    [defaultCfg EXCEPT
       !.gameID = IF req.gameId # "" THEN req.gameId ELSE @,
       !.sheetNames = <<>>,
       !.createBranch = req.createBranch,
       !.dryRun = req.dryRun]

\* The /sync-all handler: cfg := defaultCfg with the request's dryRun.
SyncAllRequestConfig(defaultCfg, req) ==
    [defaultCfg EXCEPT !.sheetNames = <<>>, !.createBranch = FALSE,
                       !.dryRun = req.dryRun]

\* runSyncAll: the configuration of one game's run.
SyncAllGameConfig(baseCfg, gameID) ==
    [baseCfg EXCEPT !.gameID = gameID, !.sheetNames = <<>>,
                    !.createBranch = FALSE]

(***************************************************************************)
(* runSync, one action per stage.                                          *)
(***************************************************************************)
Fail(r, cause) == [r EXCEPT !.pc = "done", !.result = "error", !.err = cause]

\* A faulty order of the stages: the generated file before the branch.
StageAfterWriteFirst(stage, cfg) ==
    CASE stage = "sheets" -> "write"
      [] stage = "write" -> IF cfg.createBranch THEN "branch" ELSE "log"
      [] stage = "branch" -> "log"
      [] OTHER -> "done"

\* The stage that follows a stage of runSync once the sheet loop is over:
\* branch creation (when asked for), the generated file, the change log.
StageAfter(stage, cfg) ==
    CASE stage = "sheets" -> IF cfg.createBranch THEN "branch" ELSE "write"
      [] stage = "branch" -> "write"
      [] stage = "write" -> "log"
      [] OTHER -> "done"

\* existingGeneratedByID: the last record of every non-empty patch id.
ExistingByID(existing) ==
    [id \in {patchIDOrFallback(existing[i]) : i \in 1..Len(existing)} \ {<<>>} |->
        LET last == CHOOSE i \in 1..Len(existing) :
                       /\ patchIDOrFallback(existing[i]) = id
                       /\ \A j \in (i + 1)..Len(existing) :
                             patchIDOrFallback(existing[j]) # id
        IN  existing[last]]

\* discoverSheetNames: the version-like tabs of the spreadsheet, or Nil when
\* every strategy fails.
discoverSheetNames(game, reachable) ==
    IF reachable
    THEN [ok |-> TRUE, names |-> sortVersionStrings(uniqueSheetNames(tabs[game]))]
    ELSE [ok |-> FALSE, names |-> <<>>]

\* runSync up to the sheet loop: profile, authoritative sheet, previously
\* generated patches, base ids, sheet names.  authoritativeOK and reachable
\* are the outcomes of the network calls.
RunSyncPrologue(entry, request, cfg, authoritativeOK, reachable) ==
    LET game == resolveGameProfile(cfg.gameID)
        r0 == [IdleRun EXCEPT !.entry = entry, !.request = request,
                              !.cfg = [cfg EXCEPT !.gameID = game],
                              !.generatedAt = clock + 1,
                              !.branchName = 0,
                              !.upstreamAtStart = upstream]
    IN  IF game = Nil THEN Fail(r0, "config")
        ELSE IF UsesDataSheet(game) /\ ~authoritativeOK THEN Fail(r0, "dataSheet")
        ELSE
          LET existing == readGeneratedPatches(files[game])
              r1 == [r0 EXCEPT
                       !.existingGenerated = existing,
                       !.existingByID = ExistingByID(existing),
                       !.basePatchIDs = IF cfg.skipExisting THEN BasePatchIDs ELSE {}]
              names == uniqueSheetNames(cfg.sheetNames)
              explicit == Len(names) > 0
              discovered == discoverSheetNames(game, reachable)
              r2 == [r1 EXCEPT !.explicit = explicit,
                               !.discoveryCalls = IF explicit THEN 0 ELSE 1]
          IN  IF ~explicit /\ ~discovered.ok THEN Fail(r2, "discovery")
              ELSE IF ~explicit /\ Len(discovered.names) = 0 THEN Fail(r2, "noSheetNames")
              ELSE IF game = gameIDGenshin /\ ~authoritativeOK
                   THEN Fail(r2, "summarySheet")
              ELSE [r2 EXCEPT
                      !.pc = "sheets",
                      !.sheetNames = sortVersionStrings(
                                        IF explicit THEN names ELSE discovered.names)]

\* The body of the sheet loop after a successful fetch, parse and override:
\* skip, or queue as added / updated.
Classify(r, patch, sheetName) ==
    LET patchID == patchIDOrFallback(patch)
        hadPrevious == patchID \in DOMAIN r.existingByID
        counted == [r EXCEPT !.validPatchRows = @ + 1, !.idx = @ + 1]
    IN  IF r.cfg.skipExisting /\ hadPrevious
           /\ patchesEquivalent(r.existingByID[patchID], patch)
        THEN [counted EXCEPT
                !.skippedPatches = IF patchID # <<>> THEN Append(@, patchID) ELSE @]
        ELSE [counted EXCEPT
                !.basePatchIDs = IF r.cfg.skipExisting THEN @ \ {patchID} ELSE @,
                !.changeEntries = Append(@,
                    [patch |-> patchID,
                     changeType |-> IF hadPrevious THEN "updated" ELSE "added",
                     changedSources |->
                        IF hadPrevious
                        THEN changedSourceIDs(r.existingByID[patchID], patch)
                        ELSE {}]),
                !.patches = Append(@, patch),
                !.parsedSheetNames = Append(@, sheetName),
                !.existingByID =
                    IF patchID = <<>> THEN @
                    ELSE [id \in DOMAIN @ \cup {patchID} |->
                            IF id = patchID THEN patch ELSE @[id]]]

\* Two faulty treatments of a failing sheet: always skip it, always abort.
OnSheetErrorContinue(seen, cause) == [seen EXCEPT !.idx = @ + 1]

OnSheetErrorAbort(seen, cause) == Fail(seen, cause)

\* A sheet that cannot be fetched, parsed or overridden: with explicit sheet
\* names the run returns the error, otherwise the loop continues.
OnSheetError(seen, cause) ==
    IF seen.explicit THEN Fail(seen, cause) ELSE [seen EXCEPT !.idx = @ + 1]

\* One iteration of the sheet loop.  Once the context of the run is
\* cancelled, in iteration cancelAt, fetchSheetCSV returns its error.
SheetStep(r) ==
    LET game == r.cfg.gameID
        sheetName == r.sheetNames[r.idx]
        content == upstream[game][sheetName]
        seen == [r EXCEPT !.fetched = Append(@, sheetName)]
        parsed == ParseSheet(game, sheetName, content)
        overridden == ApplyOverrides(game, parsed.patch, upstream[game])
        cancelled == r.cancelAt > 0 /\ r.idx >= r.cancelAt
    IN  IF cancelled \/ ~Fetchable(content) THEN OnSheetError(seen, "fetch")
        ELSE IF ~parsed.ok THEN OnSheetError(seen, "parse")
        ELSE IF ~overridden.ok THEN OnSheetError(seen, "override")
        ELSE Classify(seen, overridden.patch, sheetName)

(***************************************************************************)
(* The stages of runSync as functions of the world                         *)
(* w = [run, files, changeLog, branches].                                  *)
(***************************************************************************)
\* One iteration of the sheet loop.
ProcessSheet(w) == [w EXCEPT !.run = SheetStep(@)]

\* A faulty emptiness test: never empty.
NothingParsedIgnored(r) == FALSE

\* The test for a run that parsed and skipped nothing.
NothingParsed(r) ==
    r.validPatchRows = 0 /\ Len(r.patches) = 0 /\ Len(r.skippedPatches) = 0

\* After the loop: nothing parsed is an error; otherwise the queued patches
\* are sorted and the skipped ids de-duplicated.
FinishParsing(w) ==
    LET r == w.run
    IN  [w EXCEPT !.run =
           IF NothingParsed(r)
           THEN Fail(r, "noValidSheets")
           ELSE [r EXCEPT !.patches = sortPatches(@),
                          !.skippedPatches = uniqueStrings(@),
                          !.pc = StageAfter("sheets", r.cfg)]]

\* A faulty branch stage that leaves the branch alone in dry-run.
createBranchUnlessDryRun(w, ok) ==
    IF w.run.cfg.dryRun
    THEN [w EXCEPT !.run = [@ EXCEPT !.pc = StageAfter("branch", w.run.cfg)]]
    ELSE IF ok
         THEN [w EXCEPT !.branches = Append(@, w.run.generatedAt),
                        !.run = [@ EXCEPT !.branchName = w.run.generatedAt,
                                          !.effects = Append(@, "branch"),
                                          !.pc = StageAfter("branch", w.run.cfg)]]
         ELSE [w EXCEPT !.run = Fail(@, "branch")]

\* createBranch: git checkout -b <prefix>-<timestamp> succeeds or fails.
createBranch(w, ok) ==
    IF ok
    THEN [w EXCEPT !.branches = Append(@, w.run.generatedAt),
                   !.run = [@ EXCEPT !.branchName = w.run.generatedAt,
                                     !.effects = Append(@, "branch"),
                                     !.pc = StageAfter("branch", w.run.cfg)]]
    ELSE [w EXCEPT !.run = Fail(@, "branch")]

GeneratedMetaOf(r) ==
    [gameId |-> r.cfg.gameID,
     sheets |-> uniqueStrings(r.parsedSheetNames \o r.skippedPatches),
     generatedAt |-> r.generatedAt]

\* A faulty write condition: dry-run is not consulted.
ShouldWriteInDryRun(r) == Len(r.patches) > 0

\* A faulty write condition: the file is rewritten with nothing queued.
ShouldWriteWhenEmpty(r) == ~r.cfg.dryRun

\* The condition under which the generated file is written.
ShouldWrite(r) == ~r.cfg.dryRun /\ Len(r.patches) > 0

\* The merge and, outside dry-run and with at least one queued patch, the
\* write of the generated file, which succeeds or fails.
WriteGenerated(w, ok) ==
    LET r == w.run
        merged == mergePatchesByID(r.existingGenerated, r.patches)
        r1 == [r EXCEPT !.allPatches = merged]
    IN  IF ShouldWrite(r)
        THEN IF ok
             THEN [w EXCEPT
                     !.files[r.cfg.gameID] =
                         writeGeneratedFile(merged, GeneratedMetaOf(r)),
                     !.run = [r1 EXCEPT !.effects = Append(@, "write"),
                                        !.pc = StageAfter("write", r.cfg)]]
             ELSE [w EXCEPT !.run = Fail(r1, "write")]
        ELSE [w EXCEPT !.run = [r1 EXCEPT !.pc = StageAfter("write", r.cfg)]]

ChangeLogRecordOf(r) ==
    [timestamp |-> r.generatedAt, gameId |-> r.cfg.gameID,
     generatedAt |-> r.generatedAt, updatedPatches |-> r.changeEntries]

\* A faulty log condition: dry-run is not consulted.
ShouldLogInDryRun(r) == Len(r.changeEntries) > 0

\* The condition under which a change-log record is appended.
ShouldLog(r) == ~r.cfg.dryRun /\ Len(r.changeEntries) > 0

\* A faulty change log whose failure fails the run.
appendChangeLogRecordOrFail(w, ok) ==
    LET r == w.run
        finished == [r EXCEPT !.pc = StageAfter("log", r.cfg), !.result = "ok"]
    IN  IF ShouldLog(r)
        THEN IF ok
             THEN [w EXCEPT !.changeLog = Append(@, ChangeLogRecordOf(r)),
                            !.run = [finished EXCEPT !.effects = Append(@, "log")]]
             ELSE [w EXCEPT !.run = Fail(r, "log")]
        ELSE [w EXCEPT !.run = finished]

\* appendChangeLogRecord, outside dry-run and with at least one change
\* entry; a failure to append is only logged.
appendChangeLogRecord(w, ok) ==
    LET r == w.run
        finished == [r EXCEPT !.pc = StageAfter("log", r.cfg), !.result = "ok"]
    IN  IF ShouldLog(r)
        THEN IF ok
             THEN [w EXCEPT !.changeLog = Append(@, ChangeLogRecordOf(r)),
                            !.run = [finished EXCEPT !.effects = Append(@, "log")]]
             ELSE [w EXCEPT !.run = [finished EXCEPT !.logFailed = TRUE]]
        ELSE [w EXCEPT !.run = finished]

\* The outcomes of the network, git and file-system calls of one run.  Every
\* failure but the change log's ends the run, so one failure per run covers
\* every combination.
NoFault ==
    [authoritativeOK |-> TRUE, reachable |-> TRUE, branchOK |-> TRUE,
     writeOK |-> TRUE, logOK |-> TRUE, cancelAt |-> 0]

IOOutcomes ==
    IF events < MaxEvents
    THEN {NoFault} \cup {[NoFault EXCEPT ![k] = FALSE] :
                            k \in DOMAIN NoFault \ {"cancelAt"}}
    ELSE {NoFault}

RunStage(w, io) ==
    CASE w.run.pc = "sheets" ->
            IF w.run.idx <= Len(w.run.sheetNames) THEN ProcessSheet(w)
            ELSE FinishParsing(w)
      [] w.run.pc = "branch" -> createBranch(w, io.branchOK)
      [] w.run.pc = "write" -> WriteGenerated(w, io.writeOK)
      [] w.run.pc = "log" -> appendChangeLogRecord(w, io.logOK)
      [] OTHER -> w

RECURSIVE RunStages(_, _)
RunStages(w, io) == IF w.run.pc = "done" THEN w ELSE RunStages(RunStage(w, io), io)

\* runSync, from the prologue to its return.
runSync(entry, request, cfg, io) ==
    RunStages([run |-> [RunSyncPrologue(entry, request, cfg,
                                        io.authoritativeOK, io.reachable)
                          EXCEPT !.cancelAt = io.cancelAt],
               files |-> files, changeLog |-> changeLog, branches |-> branches],
              io)

\* A call the environment made fail was reached by the run.
FaultHit(r) ==
    \/ r.err \in {"dataSheet", "summarySheet", "discovery", "branch", "write"}
    \/ r.logFailed

Returned(w) ==
    /\ run' = w.run
    /\ events' = IF FaultHit(w.run) THEN events + 1 ELSE events
    /\ files' = w.files
    /\ changeLog' = w.changeLog
    /\ branches' = w.branches
    /\ clock' = clock + 1

(***************************************************************************)
(* Entry points and environment.                                           *)
(***************************************************************************)
\* The command line: patchsync --game G [--sheet-names ...] [--create-branch]
\* [--dry-run].
RunCLI ==
    /\ all.pc # "running"
    /\ clock < MaxRuns
    /\ \E names \in ExplicitLists, branch \in BOOLEAN, dryRun \in BOOLEAN,
          io \in IOOutcomes :
          Returned(runSync("cli", [sheetNames |-> names],
                           DefaultConfig(names, branch, dryRun), io))
    /\ UNCHANGED <<flags, upstream, tabs, all, lists, http, calc, peer, disc>>

SyncRequests ==
    [gameId : {""}, sheetNames : RequestLists, createBranch : BOOLEAN,
     dryRun : BOOLEAN]
    \cup {[gameId |-> "unknown-game", sheetNames |-> <<>>, createBranch |-> FALSE,
           dryRun |-> FALSE]}

\* POST /sync, once origin and token have been accepted.
HandleSync ==
    /\ all.pc # "running"
    /\ clock < MaxRuns
    /\ \E req \in SyncRequests, io \in IOOutcomes :
          Returned(runSync("sync", [sheetNames |-> req.sheetNames],
                           SyncRequestConfig(DefaultConfig(<<>>, FALSE, FALSE), req),
                           io))
    /\ UNCHANGED <<flags, upstream, tabs, all, lists, http, calc, peer, disc>>

\* The owner of a spreadsheet edits one tab between two runs.
EditUpstream(game) ==
    /\ all.pc # "running"
    /\ events < MaxEvents
    /\ clock < MaxRuns
    /\ \E sh \in SheetUniverse, c \in SheetContents :
          /\ upstream[game][sh] # c
          /\ upstream' = [upstream EXCEPT ![game][sh] = c]
    /\ events' = events + 1
    /\ UNCHANGED <<flags, tabs, files, changeLog, branches, clock, run, all, lists,
                   http, calc, peer, disc>>

Next ==
    \/ RunCLI
    \/ HandleSync
    \/ EditUpstream(flags.game)

Spec == Init /\ [][Next]_vars

(***************************************************************************)
(* Runs on a generated file that was edited by hand and holds two records  *)
(* of patch 1.0, the later of them the one the sheet yields.               *)
(***************************************************************************)
PriorFile(game) ==
    LET record(content) ==
            ApplyOverrides(game, ParseSheet(game, Sheet10, content).patch,
                           AllV1[game]).patch
    IN  writeGeneratedFile(<<record("v2"), record("v1")>>,
                           [gameId |-> game, sheets |-> <<Sheet10>>,
                            generatedAt |-> 0])

InitPrior ==
    /\ flags \in [game : Games, skipExisting : BOOLEAN]
    /\ tabs = [g \in Games |-> <<Sheet10, Sheet10STC, Sheet11>>]
    /\ lists = NoLists
    /\ upstream = AllV1
    /\ events = 0
    /\ files = [g \in Games |-> IF g = flags.game THEN PriorFile(g) ELSE NoFile]
    /\ changeLog = <<>>
    /\ branches = <<>>
    /\ clock = 0
    /\ run = IdleRun
    /\ all = IdleAll
    /\ InitCommand

SpecPrior == InitPrior /\ [][Next]_vars

(***************************************************************************)
(* Runs of POST /sync whose context is cancelled: the client disconnects   *)
(* while the sheets are being fetched.  (The command line runs under       *)
(* context.Background(), which is never cancelled.)                        *)
(***************************************************************************)
RunCancelled(cancelAt) ==
    /\ all.pc # "running"
    /\ clock < MaxRuns
    /\ \E dryRun \in BOOLEAN :
          LET io == [NoFault EXCEPT !.cancelAt = cancelAt]
              req == [gameId |-> "", sheetNames |-> <<>>, createBranch |-> FALSE,
                      dryRun |-> dryRun]
          IN  Returned(runSync("sync", [sheetNames |-> req.sheetNames],
                               SyncRequestConfig(DefaultConfig(<<>>, FALSE, FALSE),
                                                 req), io))
    /\ UNCHANGED <<flags, upstream, tabs, all, lists, http, calc, peer, disc>>

NextCancel ==
    \/ \E cancelAt \in 0..MaxCancelAt : RunCancelled(cancelAt)
    \/ EditUpstream(flags.game)

SpecCancel == Init /\ [][NextCancel]_vars

(***************************************************************************)
(* Two invocations of patchsync against the same output path, overlapping: *)
(* each reads the generated file at its start and writes it at its end.    *)
(***************************************************************************)
\* runSync up to the point where it is about to merge and write.
RECURSIVE RunToWrite(_, _)
RunToWrite(w, io) ==
    IF w.run.pc \in {"write", "done"} THEN w ELSE RunToWrite(RunStage(w, io), io)

\* An invocation starts: it reads the generated file and the base ids,
\* fetches and parses its sheets and queues its patches.
BeginRun(first) ==
    /\ (IF first THEN run ELSE peer).pc = "idle"
    /\ \E names \in ExplicitLists \cup {<<Sheet11>>} :
          LET w == RunToWrite(
                       [run |-> RunSyncPrologue("cli", [sheetNames |-> names],
                                                DefaultConfig(names, FALSE, FALSE),
                                                TRUE, TRUE),
                        files |-> files, changeLog |-> changeLog,
                        branches |-> branches], NoFault)
          IN  /\ run' = IF first THEN w.run ELSE run
              /\ peer' = IF first THEN peer ELSE w.run
    /\ UNCHANGED <<flags, upstream, tabs, events, files, changeLog, branches, clock,
                   all, lists, http, calc, disc>>

\* An invocation ends: it merges what it read at its start with its
\* patches, writes the generated file and appends to the change log.
FinishRun(first) ==
    LET r == IF first THEN run ELSE peer
        w == RunStages([run |-> [r EXCEPT !.generatedAt = clock + 1],
                        files |-> files, changeLog |-> changeLog,
                        branches |-> branches], NoFault)
    IN  /\ r.pc = "write"
        /\ run' = IF first THEN w.run ELSE run
        /\ peer' = IF first THEN peer ELSE w.run
        /\ files' = w.files
        /\ changeLog' = w.changeLog
        /\ clock' = clock + 1
        /\ UNCHANGED <<flags, upstream, tabs, events, branches, all, lists, http,
                       calc, disc>>

NextOverlap ==
    \/ \E first \in BOOLEAN : BeginRun(first)
    \/ \E first \in BOOLEAN : FinishRun(first)
    \/ EditUpstream(flags.game)

SpecOverlap == Init /\ [][NextOverlap]_vars

(***************************************************************************)
(* POST /sync-all: runSyncAll, one step per registered game.               *)
(***************************************************************************)
patchNamesFromPatches(patches) == [i \in 1..Len(patches) |-> patches[i].patch]

\* The syncGameResult runSyncAll appends for a finished run.
SyncGameResult(gameID, r) ==
    IF r.result # "ok"
    THEN [gameId |-> gameID, error |-> r.err, sheets |-> <<>>, patches |-> <<>>,
          skipped |-> <<>>, changeCount |-> 0, generatedAt |-> 0]
    ELSE [gameId |-> r.cfg.gameID, error |-> "",
          sheets |-> r.parsedSheetNames,
          patches |-> patchNamesFromPatches(r.patches),
          skipped |-> r.skippedPatches,
          changeCount |-> Len(r.changeEntries),
          generatedAt |-> r.generatedAt]

\* A faulty loop body: the first failing game ends the loop.
AfterGameStopOnError(a, gameID, r) ==
    [a EXCEPT !.next = IF r.result = "ok" THEN @ + 1 ELSE Len(availableGameIDs) + 1,
              !.allOK = @ /\ r.result = "ok",
              !.results = Append(@, SyncGameResult(gameID, r))]

\* The body of runSyncAll's loop after runSync has returned: the result is
\* appended, an error clears allOK, and the loop goes on to the next game.
AfterGame(a, gameID, r) ==
    [a EXCEPT !.next = @ + 1,
              !.allOK = @ /\ r.result = "ok",
              !.results = Append(@, SyncGameResult(gameID, r))]

\* The handler accepts the request and enters runSyncAll.
HandleSyncAll ==
    /\ all.pc = "idle"
    /\ \E dryRun \in BOOLEAN :
          all' = [IdleAll EXCEPT
                    !.pc = "running",
                    !.cfg = SyncAllRequestConfig(DefaultConfig(<<>>, FALSE, FALSE),
                                                 [dryRun |-> dryRun])]
    /\ UNCHANGED <<flags, upstream, tabs, events, files, changeLog, branches, clock,
                   run, lists, http, calc, peer, disc>>

\* One iteration of runSyncAll's loop over availableGameIDs().
SyncAllGame ==
    /\ all.pc = "running"
    /\ all.next <= Len(availableGameIDs)
    /\ \E io \in IOOutcomes :
          LET gameID == availableGameIDs[all.next]
              w == runSync("syncAll", [sheetNames |-> <<>>],
                           SyncAllGameConfig(all.cfg, gameID), io)
          IN  /\ Returned(w)
              /\ all' = AfterGame(all, gameID, w.run)
    /\ UNCHANGED <<flags, upstream, tabs, lists, http, calc, peer, disc>>

\* runSyncAll returns and the handler writes the response.
SyncAllRespond ==
    /\ all.pc = "running"
    /\ all.next > Len(availableGameIDs)
    /\ all' = [all EXCEPT !.pc = "done",
                          !.response = [sent |-> TRUE, ok |-> all.allOK,
                                        results |-> all.results]]
    /\ UNCHANGED <<flags, upstream, tabs, events, files, changeLog, branches, clock,
                   run, lists, http, calc, peer, disc>>

EditAnyUpstream == all.pc = "idle" /\ \E game \in Games : EditUpstream(game)

NextAll ==
    \/ HandleSyncAll
    \/ SyncAllGame
    \/ SyncAllRespond
    \/ EditAnyUpstream

SpecAll == Init /\ [][NextAll]_vars

(***************************************************************************)
(* Serve mode: the checks of the /sync and /sync-all handlers.             *)
(***************************************************************************)

\* Values of the Origin header, as withCORS sees them after TrimSpace.
Origins ==
    {"", "null", "NULL", "http://localhost:5173", "http://127.0.0.1:5173",
     "http://[::1]:8787", "HTTP://LOCALHOST:5173", "https://app.example",
     "http://localhost.evil.example", "https://evil.example"}

\* strings.ToLower(url.Parse(origin).Hostname()) of the origins above.
Hostname(origin) ==
    CASE origin \in {"http://localhost:5173", "HTTP://LOCALHOST:5173"} -> "localhost"
      [] origin = "http://127.0.0.1:5173" -> "127.0.0.1"
      [] origin = "http://[::1]:8787" -> "::1"
      [] origin = "https://app.example" -> "app.example"
      [] origin = "http://localhost.evil.example" -> "localhost.evil.example"
      [] origin = "https://evil.example" -> "evil.example"
      [] OTHER -> ""

isLoopbackOrigin(origin) ==
    \/ origin \in {"null", "NULL"}
    \/ Hostname(origin) \in {"localhost", "127.0.0.1", "::1"}

isOriginAllowed(origin, allowed) ==
    \/ origin = ""
    \/ "*" \in allowed
    \/ origin \in allowed
    \/ isLoopbackOrigin(origin)

\* withCORS: FALSE when the handler must answer 403.
withCORS(request, allowed) ==
    request.origin = "" \/ isOriginAllowed(request.origin, allowed)

\* A faulty check: every request passes for a token.
isAuthorizedAlways(request, authToken) == TRUE

isAuthorized(request, authToken) ==
    authToken = "" \/ request.token = authToken

\* The values of --allowed-origins (the first is the default) and of
\* --auth-token.
ServerConfigs ==
    [allowedOrigins : {{"http://127.0.0.1:5173", "http://localhost:5173"}, {"https://app.example"}, {"*"}},
     authToken : {"", "s3cret"}]

\* The body of a request as parseSyncRequestBody decodes it.
EmptyBody == [valid |-> TRUE, gameId |-> "", dryRun |-> FALSE]

HttpRequests ==
    [method : {"POST"}, path : {"/sync", "/sync-all"}, origin : Origins,
     token : {"", "s3cret", "wrong"}, body : {EmptyBody}]
    \cup [method : {"GET", "OPTIONS"}, path : {"/sync", "/sync-all"},
          origin : {"", "https://evil.example"}, token : {""}, body : {EmptyBody}]
    \cup [method : {"POST"}, path : {"/sync", "/sync-all"}, origin : {""},
          token : {"s3cret"},
          body : {[EmptyBody EXCEPT !.valid = FALSE],
                  [EmptyBody EXCEPT !.gameId = "unknown-game"],
                  [EmptyBody EXCEPT !.dryRun = TRUE]}]

\* The checks both handlers make before they build the configuration of the
\* run: 0 when the request passes them all, else the status they answer.
Gate(request, server) ==
    CASE ~withCORS(request, server.allowedOrigins) -> 403
      [] request.method = "OPTIONS" -> 204
      [] request.method # "POST" -> 405
      [] ~isAuthorized(request, server.authToken) -> 401
      [] ~request.body.valid -> 400
      [] OTHER -> 0

Answered(request, status) ==
    http' = [http EXCEPT !.served = TRUE, !.request = request, !.status = status]

\* The handler of /sync.
ServeSync ==
    /\ all.pc # "running"
    /\ clock < MaxRuns
    /\ \E request \in HttpRequests :
          /\ request.path = "/sync"
          /\ LET status == Gate(request, http.server)
                 req == [gameId |-> request.body.gameId, sheetNames |-> <<>>,
                         createBranch |-> FALSE, dryRun |-> request.body.dryRun]
                 w == runSync("sync", [sheetNames |-> <<>>],
                              SyncRequestConfig(DefaultConfig(<<>>, FALSE, FALSE), req),
                              NoFault)
             IN  IF status # 0
                 THEN /\ Answered(request, status)
                      /\ UNCHANGED <<events, files, changeLog, branches, clock, run>>
                 ELSE /\ Returned(w)
                      /\ Answered(request, IF w.run.result = "ok" THEN 200 ELSE 400)
    /\ UNCHANGED <<flags, upstream, tabs, all, lists, calc, peer, disc>>

\* The handler of /sync-all, up to the call of runSyncAll.
ServeSyncAll ==
    /\ all.pc = "idle"
    /\ \E request \in HttpRequests :
          /\ request.path = "/sync-all"
          /\ LET status == Gate(request, http.server)
             IN  IF status # 0
                 THEN /\ Answered(request, status)
                      /\ UNCHANGED all
                 ELSE /\ Answered(request, 200)
                      /\ all' = [IdleAll EXCEPT
                                   !.pc = "running",
                                   !.cfg = SyncAllRequestConfig(
                                               DefaultConfig(<<>>, FALSE, FALSE),
                                               [dryRun |-> request.body.dryRun])]
    /\ UNCHANGED <<flags, upstream, tabs, events, files, changeLog, branches, clock,
                   run, lists, calc, peer, disc>>

InitHttp ==
    /\ flags = [game |-> defaultGameID, skipExisting |-> TRUE]
    /\ tabs = [g \in Games |-> <<Sheet10, Sheet11>>]
    /\ lists = NoLists
    /\ InitCommon
    /\ \E server \in ServerConfigs :
          http = [IdleHttp EXCEPT !.server = server]
    /\ calc = NoCalc
    /\ peer = IdleRun
    /\ disc = IdleDisc

NextHttp ==
    \/ ServeSync
    \/ ServeSyncAll
    \/ SyncAllGame
    \/ SyncAllRespond

SpecHttp == InitHttp /\ [][NextHttp]_vars

(***************************************************************************)
(* mergePatchesByID and sortPatches on lists of patch records.             *)
(***************************************************************************)
\* The ids "1.2", "1.10", "9.0", "10.0", "5" and "beta".
PatchIdUniverse ==
    {<<49, 46, 50>>, <<49, 46, 49, 48>>, <<57, 46, 48>>, <<49, 48, 46, 48>>,
     <<53>>, <<98, 101, 116, 97>>}

\* The lists of at most MaxLen patches with distinct ids; rev tells the
\* records of one id apart.  The file is written sorted and so is the list
\* of a run's patches: both lists start as sortPatches leaves them.
RECURSIVE PatchListsOfLen(_, _)
PatchListsOfLen(n, rev) ==
    IF n = 0 THEN {<<>>}
    ELSE {Append(la[1], [id |-> la[2], patch |-> la[2], rev |-> rev]) :
             la \in {x \in PatchListsOfLen(n - 1, rev) \X PatchIdUniverse :
                        \A i \in 1..Len(x[1]) : x[1][i].id # x[2]}}

PatchLists(rev) == UNION {PatchListsOfLen(n, rev) : n \in 0..MaxLen}

InitLists ==
    /\ flags = [game |-> defaultGameID, skipExisting |-> TRUE]
    /\ tabs = [g \in Games |-> <<Sheet11>>]
    /\ \E existing \in PatchLists("old"), additions \in PatchLists("new") :
          /\ sortPatches(existing) = existing
          /\ sortPatches(additions) = additions
          /\ lists = [NoLists EXCEPT !.existing = existing, !.additions = additions]
    /\ InitCommon
    /\ InitCommand

MergeLists ==
    /\ ~lists.merged
    /\ lists' = [lists EXCEPT !.merged = TRUE,
                              !.out = mergePatchesByID(lists.existing, lists.additions)]
    /\ UNCHANGED <<flags, upstream, tabs, events, files, changeLog, branches, clock,
                   run, all, http, calc, peer, disc>>

NextLists == MergeLists

SpecLists == InitLists /\ [][NextLists]_vars

(***************************************************************************)
(* The functions of the parsers and resolvers, applied to drawn arguments. *)
(***************************************************************************)
\* A parsed patch of three sources: an F2P source, the source the game's
\* resolver adjusts (Endfield, which has none: "permanent") and a paid one.
ParsedPatch(game, otherCurrency, adjustCurrency) ==
    LET other == IF game = gameIDHsr THEN "mailbox" ELSE "events"
        adjust == IF game = gameIDEndfield THEN "permanent" ELSE adjustSourceID(game)
        rewards(n) == [zeroRewards EXCEPT !.oroberyl = n]
    IN  [id |-> Sheet11, patch |-> Sheet11, durationDays |-> 42, tags |-> <<>>,
         notes |-> ProfileNotes(game),
         sources |-> <<source(other, "always", TRUE, rewards(otherCurrency)),
                       source(adjust, "always", TRUE, rewards(adjustCurrency)),
                       source("monthly", "monthly", TRUE, rewards(160))>>]

\* The cells of the authoritative sheet for one patch, in hundredths, by
\* the source id of their row (-1: the cell is empty or the row is absent).
\* Only the Endfield and HSR sheets have a row mapped to __totalPaid.
PublishedCells(game) ==
    {[id \in {i \in DOMAIN c : c[i] >= 0} |-> c[id]] :
        c \in [other : {-1, 10000, 254}, adjust : {-1, 10000}, monthly : {-1, 3000},
               __totalF2P : {-1, 20000, 20500},
               __totalPaid : IF game \in {gameIDEndfield, gameIDHsr}
                             THEN {-1, 25000} ELSE {-1}]}

\* parseDataSheetPulls / parseGenshinSummaryPullTotals on those cells: the
\* entry of the patch, every value rounded by parseDataPullValue.
parseDataSheetPulls(game, patch, cells) ==
    LET idOf(k) == CASE k = "other" -> patch.sources[1].id
                     [] k = "adjust" -> patch.sources[2].id
                     [] OTHER -> k
    IN  [id \in {idOf(k) : k \in DOMAIN cells} |->
            roundToTenth(cells[CHOOSE k \in DOMAIN cells : idOf(k) = id])]

\* A resolver on a patch and the cells published for it.
applyPullOverrides(game, patch, cells) ==
    LET sourcePulls == parseDataSheetPulls(game, patch, cells)
    IN  IF game = gameIDGenshin
        THEN IF "__totalF2P" \in DOMAIN sourcePulls
             THEN applyGenshinSummaryPullOverrides(patch, sourcePulls["__totalF2P"])
             ELSE [ok |-> FALSE]
        ELSE IF DOMAIN sourcePulls = {} THEN [ok |-> FALSE]
        ELSE [ok |-> TRUE, patch |-> applyDataPullOverrides(game, patch, sourcePulls)]

\* A faulty rounding: every mode rounds down.
applyRoundingFloor(n, d, rounding) == n \div d

\* applyRounding (calculation.js) on the quotient n / d of a non-negative n
\* by a positive d: Math.ceil, Math.round (a half rounds up) or, for every
\* other mode, Math.floor.
applyRounding(n, d, rounding) ==
    CASE rounding = "ceil" -> (n + d - 1) \div d
      [] rounding = "round" -> (2 * n + d) \div (2 * d)
      [] OTHER -> n \div d

\* resolveSourceRewards (calculation.js) for one resource key of a source
\* without a battle-pass crate model; an absent unit is "" and an absent
\* everyDays is 0.
resolveSourceRewards(src, row) ==
    LET days == IF row.durationDays > 0 THEN row.durationDays ELSE 0
        added(scaler) ==
            LET everyDays == IF scaler.everyDays > 1 THEN scaler.everyDays ELSE 1
                unit == IF scaler.unit = "" THEN "day" ELSE scaler.unit
                cycles == IF unit = "day" THEN days
                          ELSE applyRounding(days, everyDays, scaler.rounding)
            IN  IF scaler.type # "per_duration" THEN 0 ELSE cycles * scaler.rewards
    IN  src.rewards + SumSeq([i \in 1..Len(src.scalers) |-> added(src.scalers[i])])

\* The scalers evaluated: those of the patch data, among them the one the
\* Wuthering Waves parser attaches to the monthly pass (per_duration, day,
\* everyDays 1, floor).
Scalers ==
    [type : {"per_duration", "per_patch"}, unit : {"", "day", "cycle"},
     everyDays : {0, 1, 3, 4, 7}, rounding : {"", "ceil", "round", "floor"},
     rewards : {1, 200}]

\* strings.Split(s, sep) for a one-byte separator.
RECURSIVE Split(_, _)
Split(s, sep) ==
    IF \A i \in 1..Len(s) : s[i] # sep THEN <<s>>
    ELSE LET i == CHOOSE k \in 1..Len(s) : s[k] = sep /\ \A j \in 1..(k - 1) : s[j] # sep
         IN  <<SubSeq(s, 1, i - 1)>> \o Split(SubSeq(s, i + 1, Len(s)), sep)

\* strconv.ParseFloat(s, 64) of a string without exponent, hexadecimal
\* digits or underscores: a signed decimal with at most one point and at
\* least one digit, or one of the special values nan, inf and infinity
\* (signed, any case).  The value is num / den, den a power of ten.
ParseFloat(s) ==
    LET signed == s # <<>> /\ Head(s) \in {43, 45}
        body == IF signed THEN Tail(s) ELSE s
        low == [i \in 1..Len(body) |-> ToLower(body[i])]
        parts == Split(body, 46)
        digits == SelectSeq(body, IsDigit)
        sign == IF signed /\ Head(s) = 45 THEN 0 - 1 ELSE 1
        RECURSIVE Pow10(_)
        Pow10(n) == IF n = 0 THEN 1 ELSE 10 * Pow10(n - 1)
    IN  IF low \in {<<105, 110, 102>>, <<105, 110, 102, 105, 110, 105, 116, 121>>}
        THEN [ok |-> TRUE, special |-> "inf", num |-> sign, den |-> 1]
        ELSE IF ~signed /\ low = <<110, 97, 110>>
        THEN [ok |-> TRUE, special |-> "nan", num |-> 0, den |-> 1]
        ELSE IF /\ digits # <<>>
                /\ \A i \in 1..Len(body) : IsDigit(body[i]) \/ body[i] = 46
                /\ Len(parts) <= 2
        THEN [ok |-> TRUE, special |-> "", num |-> sign * Atoi(digits),
              den |-> IF Len(parts) = 2 THEN Pow10(Len(parts[2])) ELSE 1]
        ELSE [ok |-> FALSE]

\* The thousands test of parseNumber on the dot-separated parts: every part
\* a non-empty string of digits, every part after the first of exactly
\* three.
isThousands(parts) ==
    /\ Len(parts) > 1
    /\ \A i \in 1..Len(parts) :
          parts[i] # <<>> /\ \A k \in 1..Len(parts[i]) : IsDigit(parts[i][k])
    /\ \A i \in 2..Len(parts) : Len(parts[i]) = 3

\* parseNumber (main.go): the value read from a cell, 0 when it is empty or
\* ParseFloat rejects what is left of it.  Code 160 stands for the
\* no-break space.
parseNumber(raw) ==
    LET Without(s, c) == SelectSeq(s, LAMBDA x : x # c)
        Replace(s, c, d) == [i \in 1..Len(s) |-> IF s[i] = c THEN d ELSE s[i]]
        Count(s, c) == Len(s) - Len(Without(s, c))
        trimmed == Without(Without(TrimSpace(raw), 160), 32)
        cleaned == IF trimmed # <<>> /\ trimmed[Len(trimmed)] = 37
                   THEN SubSeq(trimmed, 1, Len(trimmed) - 1) ELSE trimmed
        LastIndex(c) == IF Count(cleaned, c) = 0 THEN 0 - 1
                        ELSE CHOOSE i \in 1..Len(cleaned) :
                                /\ cleaned[i] = c
                                /\ \A j \in (i + 1)..Len(cleaned) : cleaned[j] # c
        lastComma == LastIndex(44)
        lastDot == LastIndex(46)
        parts == Split(cleaned, 44)
        separated ==
            CASE lastComma >= 0 /\ lastDot >= 0 ->
                    IF lastComma > lastDot THEN Replace(Without(cleaned, 46), 44, 46)
                    ELSE Without(cleaned, 44)
              [] lastComma >= 0 /\ lastDot < 0 ->
                    IF Count(cleaned, 44) > 1 THEN Without(cleaned, 44)
                    ELSE IF Len(parts) = 2 /\ Len(parts[2]) = 3
                    THEN parts[1] \o parts[2]
                    ELSE Replace(cleaned, 44, 46)
              [] OTHER -> cleaned
        joined == IF Count(separated, 46) > 0 /\ isThousands(Split(separated, 46))
                  THEN Without(separated, 46) ELSE separated
        value == ParseFloat(joined)
        zero == [special |-> "", num |-> 0, den |-> 1]
    IN  IF TrimSpace(raw) = <<>> THEN zero
        ELSE IF ~value.ok THEN zero
        ELSE [special |-> value.special, num |-> value.num, den |-> value.den]

\* The cells parseNumber is applied to: every string of at most MaxToken
\* characters among 1, comma and point, and cells as sheets of several
\* locales hold them.
MaxToken == 5

Tokens ==
    UNION {[1..n -> {49, 44, 46}] : n \in 0..MaxToken} \cup
    {
     <<49, 44, 50, 51, 52, 46, 53>>,                      \* '1,234.5'
     <<49, 50, 51, 52, 46, 53>>,                          \* '1234.5'
     <<49, 46, 50, 51, 52, 44, 53>>,                      \* '1.234,5'
     <<49, 46, 50, 51, 52, 44, 53, 54, 55>>,              \* '1.234,567'
     <<49, 46, 50, 51, 52, 46, 53, 54, 55>>,              \* '1.234.567'
     <<49, 32, 50, 51, 52, 44, 53>>,                      \* '1 234,5'
     <<49, 160, 50, 51, 52, 44, 53>>,                     \* '1<nbsp>234,5'
     <<32, 49, 50, 37, 32>>,                              \* ' 12% '
     <<45, 49, 46, 53>>,                                  \* '-1.5'
     <<45, 49, 44, 53>>,                                  \* '-1,5'
     <<110, 47, 97>>,                                     \* 'n/a'
     <<110, 97, 110>>,                                    \* 'nan'
     <<105, 110, 102>>,                                   \* 'inf'
     <<45, 73, 110, 102, 105, 110, 105, 116, 121>>,       \* '-Infinity'
     <<45>>,                                              \* '-'
     <<32, 32, 32>>                                       \* '   '
    }

\* The check of parseSheetToPatchWuwa on the Total F2P and Total Paid rows
\* of the tab: made only when both rows are there.
wuwaTotalsAgree(t) ==
    (t.hasTotalF2P /\ t.hasTotalPaid)
    => /\ absFloat(t.expectedF2PPulls - t.actualF2PPulls) = 0
       /\ absFloat(t.expectedPaidPulls - t.actualPaidPulls) = 0

InitCalc ==
    /\ flags = [game |-> defaultGameID, skipExisting |-> TRUE]
    /\ tabs = [g \in Games |-> <<Sheet11>>]
    /\ lists = NoLists
    /\ InitCommon
    /\ http = IdleHttp
    /\ peer = IdleRun
    /\ disc = IdleDisc
    /\ \/ \E game \in Games, o \in {0, 8, 160}, a \in {0, 160} :
             \E cells \in PublishedCells(game) :
                calc = [fn |-> "overrides", done |-> FALSE, game |-> game,
                        patch |-> ParsedPatch(game, o, a), cells |-> cells]
       \/ \E t \in [hasTotalF2P : BOOLEAN, hasTotalPaid : BOOLEAN,
                    expectedF2PPulls : {20000, 20500}, actualF2PPulls : {20000},
                    expectedPaidPulls : {25000, 25500}, actualPaidPulls : {25000}] :
             calc = [fn |-> "totals", done |-> FALSE, rows |-> t]
       \/ \E raw \in Tokens : calc = [fn |-> "number", done |-> FALSE, raw |-> raw]
       \/ \E scaler \in Scalers, n \in {1, 7, 10, 42, 54}, base \in {0, 160} :
             calc = [fn |-> "scaler", done |-> FALSE, row |-> [durationDays |-> n],
                     src |-> [rewards |-> base, scalers |-> <<scaler>>]]

EvalOverrides ==
    /\ calc.fn = "overrides" /\ ~calc.done
    /\ calc' = [fn |-> calc.fn, done |-> TRUE, game |-> calc.game,
                patch |-> calc.patch, cells |-> calc.cells,
                out |-> applyPullOverrides(calc.game, calc.patch, calc.cells)]
    /\ UNCHANGED <<flags, upstream, tabs, events, files, changeLog, branches, clock,
                   run, all, lists, http, peer, disc>>

EvalTotals ==
    /\ calc.fn = "totals" /\ ~calc.done
    /\ calc' = [fn |-> calc.fn, done |-> TRUE, rows |-> calc.rows,
                ok |-> wuwaTotalsAgree(calc.rows)]
    /\ UNCHANGED <<flags, upstream, tabs, events, files, changeLog, branches, clock,
                   run, all, lists, http, peer, disc>>

EvalScaler ==
    /\ calc.fn = "scaler" /\ ~calc.done
    /\ calc' = [fn |-> calc.fn, done |-> TRUE, row |-> calc.row, src |-> calc.src,
                out |-> resolveSourceRewards(calc.src, calc.row)]
    /\ UNCHANGED <<flags, upstream, tabs, events, files, changeLog, branches, clock,
                   run, all, lists, http, peer, disc>>

EvalNumber ==
    /\ calc.fn = "number" /\ ~calc.done
    /\ calc' = [fn |-> calc.fn, done |-> TRUE, raw |-> calc.raw,
                out |-> parseNumber(calc.raw)]
    /\ UNCHANGED <<flags, upstream, tabs, events, files, changeLog, branches, clock,
                   run, all, lists, http, peer, disc>>

NextCalc ==
    \/ EvalOverrides
    \/ EvalTotals
    \/ EvalScaler
    \/ EvalNumber

SpecCalc == InitCalc /\ [][NextCalc]_vars

(***************************************************************************)
(* Properties.  A run has returned in a step exactly when the clock has    *)
(* ticked; run is then the record of the preceding run and run' the record *)
(* of the run that returned.                                               *)
(***************************************************************************)
Has(effects, e) == \E i \in 1..Len(effects) : effects[i] = e

Wrote(r) == Has(r.effects, "write")

RunReturned == clock' # clock

\* A sheet that yields no patch in run r: it cannot be fetched, or its
\* parser fails, or the authoritative sheet has no entry for its version.
BadSheet(r, sheetName) ==
    LET conditions == r.upstreamAtStart[r.cfg.gameID]
    IN  \/ ~Fetchable(conditions[sheetName])
        \/ ~ParseSheet(r.cfg.gameID, sheetName, conditions[sheetName]).ok
        \/ \E other \in DOMAIN conditions :
              /\ conditions[other] = "notInData"
              /\ versionSortKey(other) = versionSortKey(sheetName)

PatchIDs(patches) == {patches[i].id : i \in 1..Len(patches)}

\* What the generated file of a game holds.
Persisted(file) == IF file.exists THEN file.patches ELSE <<>>

LastWithID(patches, id) ==
    patches[CHOOSE i \in 1..Len(patches) :
               /\ patches[i].id = id
               /\ \A j \in (i + 1)..Len(patches) : patches[j].id # id]

\* C1: a second run with skip-existing, given the same sheets of the same
\* game as the run that wrote the generated file and an unchanged upstream,
\* queues no "updated" entry and leaves the generated file as it was.
C1_Idempotent ==
    [][(/\ RunReturned
        /\ run.pc = "done" /\ Wrote(run)
        /\ run'.cfg = run.cfg
        /\ run'.cfg.skipExisting
        /\ run'.sheetNames = run.sheetNames
        /\ run.upstreamAtStart = upstream
        /\ run'.result = "ok")
       => /\ \A i \in 1..Len(run'.changeEntries) :
                run'.changeEntries[i].changeType # "updated"
          /\ files' = files]_vars

\* C2: after a run that wrote the generated file, the file holds every
\* record it held before whose id the run did not queue, unchanged; for
\* every queued id it holds exactly one record, the run's last patch of that
\* id; and it holds nothing else.
C2_MergeIsUnionByID ==
    [][(RunReturned /\ Wrote(run'))
       => LET game == run'.cfg.gameID
              before == Persisted(files[game])
              after == Persisted(files'[game])
              accepted == PatchIDs(run'.patches)
          IN  /\ \A i \in 1..Len(before) :
                    before[i].id \notin accepted
                    => \E j \in 1..Len(after) : after[j] = before[i]
              /\ \A id \in accepted :
                    /\ Cardinality({j \in 1..Len(after) : after[j].id = id}) = 1
                    /\ \E j \in 1..Len(after) :
                          after[j] = toGeneratedPatch(LastWithID(run'.patches, id), game)
              /\ \A j \in 1..Len(after) :
                    \/ after[j].id \in accepted
                    \/ \E i \in 1..Len(before) : before[i] = after[j]]_vars

\* A writing run that replaced one prior record and kept another untouched.
C2_Witness ==
    /\ run.pc = "done" /\ Wrote(run)
    /\ \E i \in 1..Len(run.existingGenerated) :
          run.existingGenerated[i].id \notin PatchIDs(run.patches)
    /\ \E i \in 1..Len(run.existingGenerated), j \in 1..Len(run.patches) :
          /\ run.existingGenerated[i].id = run.patches[j].id
          /\ ~patchesEquivalent(run.existingGenerated[i], run.patches[j])

\* C4: a dry-run leaves every generated file and the change log as they
\* were, whatever it parsed, added or updated.
C4_DryRunWritesNothing ==
    [][(RunReturned /\ run'.cfg.dryRun)
       => (files' = files /\ changeLog' = changeLog)]_vars

\* A successful dry-run that queued an added and an updated patch.
C4_Witness ==
    /\ run.pc = "done" /\ run.cfg.dryRun /\ run.result = "ok"
    /\ \E i \in 1..Len(run.changeEntries) :
          run.changeEntries[i].changeType = "updated"
    /\ \E i \in 1..Len(run.changeEntries) :
          run.changeEntries[i].changeType = "added"

\* C5: a run given explicit sheet names never calls discovery; if a listed
\* sheet cannot be fetched, parsed or overridden the run returns an error,
\* has fetched no sheet listed after the first such sheet, and has created
\* no branch and written neither the generated file nor the change log.
C5_ExplicitNamesFailFast ==
    [][(RunReturned /\ Len(run'.cfg.sheetNames) > 0)
       => /\ run'.discoveryCalls = 0
          /\ \A i \in 1..Len(run'.sheetNames) :
                BadSheet(run', run'.sheetNames[i])
                => /\ run'.result = "error"
                   /\ Len(run'.fetched) <= i
                   /\ branches' = branches
                   /\ files' = files
                   /\ changeLog' = changeLog]_vars

\* A run asked to branch and to write, aborted by the first of two listed
\* sheets.
C5_Witness ==
    /\ run.pc = "done" /\ run.explicit
    /\ run.cfg.createBranch /\ ~run.cfg.dryRun
    /\ run.err \in {"fetch", "parse", "override"}
    /\ Len(run.sheetNames) = 2 /\ run.fetched = <<run.sheetNames[1]>>

\* C6: in a run on discovered sheet names whose branch and file calls do not
\* fail, and with at least one sheet that yields a patch, a sheet that
\* cannot be fetched, parsed or overridden is left out and nothing else is:
\* every discovered sheet is fetched, the run succeeds, exactly the other
\* sheets are queued or skipped, and outside dry-run every queued patch is
\* in the generated file.
C6_DiscoveredNamesBestEffort ==
    (/\ run.pc = "done" /\ ~run.explicit
     /\ run.err \notin {"branch", "write"}
     /\ \E i \in 1..Len(run.sheetNames) : ~BadSheet(run, run.sheetNames[i]))
    => /\ run.result = "ok"
       /\ run.fetched = run.sheetNames
       /\ \A i \in 1..Len(run.sheetNames) :
             LET sheetName == run.sheetNames[i]
                 id == ProfilePatchID(run.cfg.gameID, sheetName)
             IN  IF BadSheet(run, sheetName)
                 THEN sheetName \notin Range(run.parsedSheetNames)
                 ELSE \/ sheetName \in Range(run.parsedSheetNames)
                      \/ id \in Range(run.skippedPatches)
       /\ (~run.cfg.dryRun /\ Len(run.patches) > 0)
          => /\ Wrote(run)
             /\ PatchIDs(run.patches)
                   \subseteq PatchIDs(Persisted(files[run.cfg.gameID]))

\* A writing run on three discovered sheets of which one failed.
C6_Witness ==
    /\ run.pc = "done" /\ ~run.explicit /\ run.result = "ok" /\ Wrote(run)
    /\ Len(run.fetched) = 3
    /\ \E i \in 1..3 : BadSheet(run, run.sheetNames[i])
    /\ Len(run.parsedSheetNames) = 2

\* C7: a run that queued no patch and skipped none returns an error and
\* leaves the generated files and the change log as they were.
C7_NothingParsedFails ==
    [][(RunReturned /\ Len(run'.patches) = 0 /\ Len(run'.skippedPatches) = 0)
       => /\ run'.result = "error"
          /\ files' = files
          /\ changeLog' = changeLog]_vars

\* A run on discovered names that got through every sheet with no patch.
C7_Witness ==
    /\ run.pc = "done" /\ run.err = "noValidSheets"
    /\ Len(run.fetched) > 0 /\ run.fetched = run.sheetNames

\* C9: a run asked to create a branch writes the generated file only
\* after the branch exists; if the branch cannot be created the run returns
\* an error, and the generated files and the change log are as they were.
C9_BranchBeforeWrite ==
    [][(RunReturned /\ run'.cfg.createBranch)
       => /\ Wrote(run')
             => \E i, j \in 1..Len(run'.effects) :
                   /\ i < j
                   /\ run'.effects[i] = "branch"
                   /\ run'.effects[j] = "write"
          /\ run'.err = "branch"
             => /\ run'.result = "error"
                /\ branches' = branches
                /\ files' = files
                /\ changeLog' = changeLog]_vars

\* A run that created its branch, then wrote the file and the change log.
C9_Witness ==
    /\ run.pc = "done" /\ run.cfg.createBranch
    /\ run.effects = <<"branch", "write", "log">>
    /\ Len(branches) > 0

\* C10: a POST /sync whose body carries sheet names runs on exactly those
\* names, without discovery, and aborts on the first failing sheet.
C10_RequestSheetNamesAuthoritative ==
    (/\ run.pc = "done" /\ run.entry = "sync"
     /\ Len(run.request.sheetNames) > 0
     /\ run.err \notin {"config", "dataSheet", "summarySheet"})
    => /\ run.discoveryCalls = 0
       /\ run.explicit
       /\ run.sheetNames = sortVersionStrings(uniqueSheetNames(run.request.sheetNames))

\* C8: the response of /sync-all carries one result per registered game, in
\* registration order; every game was run whatever the outcome of the games
\* before it (a game with no error that was not a dry-run has its generated
\* file); and the overall flag is true exactly when no result is an error.
C8_SyncAllIsolatesGames ==
    all.response.sent
    => /\ Len(all.response.results) = Len(availableGameIDs)
       /\ clock = Len(availableGameIDs)
       /\ \A i \in 1..Len(availableGameIDs) :
             LET res == all.response.results[i]
             IN  /\ res.gameId = availableGameIDs[i]
                 /\ (res.error = "" /\ ~all.cfg.dryRun)
                    => /\ files[res.gameId].exists
                       /\ files[res.gameId].meta.generatedAt = i
       /\ all.response.ok
          <=> \A i \in 1..Len(availableGameIDs) : all.response.results[i].error = ""

\* A response in which the second game failed and the games after it wrote
\* their files.
C8_Witness ==
    /\ all.response.sent /\ ~all.response.ok /\ ~all.cfg.dryRun
    /\ all.response.results[2].error # ""
    /\ \A i \in {1, 3, 4, 5} :
          /\ all.response.results[i].error = ""
          /\ files[availableGameIDs[i]].exists

\* C3, stated for the list mergePatchesByID returns (the list that is
\* persisted): records with a major.minor id come first, ascending by
\* (major, minor); the other records follow, in lexical order; and the
\* merged list is the same when the two input lists are reversed.
Conforming(id) == versionSortKey(id)[3]

Reverse(seq) == [i \in 1..Len(seq) |-> seq[Len(seq) + 1 - i]]

C3_SortedByVersion ==
    lists.merged
    => /\ \A i, j \in 1..Len(lists.out) :
             i < j
             => LET a == lists.out[i].patch
                    b == lists.out[j].patch
                    ka == versionSortKey(a)
                    kb == versionSortKey(b)
                IN  /\ Conforming(b) => Conforming(a)
                    /\ (Conforming(a) /\ Conforming(b))
                       => (ka[1] < kb[1] \/ (ka[1] = kb[1] /\ ka[2] <= kb[2]))
                    /\ (~Conforming(a) /\ ~Conforming(b)) => ~StrLess(b, a)
       /\ mergePatchesByID(Reverse(lists.existing), Reverse(lists.additions))
             = lists.out

\* C11: a POST to /sync or /sync-all starts a run only if its Origin is
\* absent, configured as allowed or has a loopback host and, when a token is
\* configured, its X-Patchsync-Token equals it; a POST that fails one of the
\* two is answered 403 or 401 and no run starts, no file is written, no
\* branch is created and the change log is as it was.
OriginAcceptable(request, server) ==
    \/ request.origin = ""
    \/ "*" \in server.allowedOrigins
    \/ request.origin \in server.allowedOrigins
    \/ Hostname(request.origin) \in {"localhost", "127.0.0.1", "::1"}

TokenAcceptable(request, server) ==
    server.authToken = "" \/ request.token = server.authToken

SyncStarted == clock' # clock \/ (all.pc # "running" /\ all'.pc = "running")

C11_OnlyAdmittedRequestsRun ==
    [][LET request == http'.request
           server == http'.server
           admissible == /\ OriginAcceptable(request, server)
                         /\ TokenAcceptable(request, server)
       IN  /\ SyncStarted => admissible
           /\ (http' # http /\ request.method = "POST" /\ ~admissible)
              => /\ http'.status \in {401, 403}
                 /\ UNCHANGED <<files, changeLog, branches, clock, run, all>>]_vars

\* The part of C11 about the token: when a token is configured, no run
\* starts for a request whose token differs, and such a request with an
\* acceptable origin is answered 401 and changes nothing.
C11_TokenRequired ==
    [][LET request == http'.request
           server == http'.server
       IN  /\ SyncStarted => TokenAcceptable(request, server)
           /\ (/\ http' # http /\ request.method = "POST"
               /\ withCORS(request, server.allowedOrigins)
               /\ ~TokenAcceptable(request, server))
              => /\ http'.status = 401
                 /\ UNCHANGED <<files, changeLog, branches, clock, run, all>>]_vars

\* A POST with a wrong token has been answered 401 after a run that wrote.
C11_Witness ==
    /\ http.served /\ http.status = 401 /\ http.request.method = "POST"
    /\ http.server.authToken # "" /\ http.request.token = "wrong"
    /\ run.pc = "done" /\ Wrote(run)

\* A run started for a POST whose Origin is the string null, with no such
\* origin configured.
C11_NullOriginRuns ==
    /\ http.served /\ http.status = 200 /\ http.request.origin = "null"
    /\ http.server.allowedOrigins = {"https://app.example"}
    /\ run.pc = "done" /\ Wrote(run)

\* C12: in a run with skip-existing, no patch whose id is among the ids of
\* the base patches file is queued as added or updated.
C12_BasePatchesSkipped ==
    (run.pc = "done" /\ run.cfg.skipExisting)
    => \A i \in 1..Len(run.patches) :
          patchIDOrFallback(run.patches[i]) \notin BasePatchIDs

\* A run with skip-existing that queued a patch of the base file as added
\* and wrote it to the generated file.
C12_BasePatchQueued ==
    /\ run.pc = "done" /\ run.cfg.skipExisting /\ Wrote(run)
    /\ \E i \in 1..Len(run.changeEntries) :
          /\ run.changeEntries[i].patch \in BasePatchIDs
          /\ run.changeEntries[i].changeType = "added"

\* C13: every patch a run has parsed, for every game, comes from a sheet in
\* which a positive duration was found, and carries that duration.
C13_DurationFoundOrFailure ==
    run.pc = "done"
    => \A i \in 1..Len(run.patches) :
          LET content == run.upstreamAtStart[run.cfg.gameID][run.parsedSheetNames[i]]
          IN  /\ DurationCell(content) > 0
              /\ run.patches[i].durationDays = DurationCell(content)

\* A Genshin run wrote a patch of 42 days parsed from a sheet in which no
\* duration was found.
C13_DefaultDurationWritten ==
    /\ run.pc = "done" /\ run.cfg.gameID = gameIDGenshin /\ Wrote(run)
    /\ \E i \in 1..Len(run.patches) :
          /\ DurationCell(run.upstreamAtStart[gameIDGenshin][run.parsedSheetNames[i]]) = 0
          /\ run.patches[i].durationDays = genshinDefaultDurationDays

(***************************************************************************)
(* Properties of the override resolvers.                                   *)
(***************************************************************************)
\* The pull count of a source downstream: the explicit count where there is
\* one, else the count derived from its rewards.
PullsOf(src) ==
    IF src.pulls # <<>> THEN src.pulls[1] ELSE genshinPullsFromRewards(src.rewards)

\* The pull counts of the pull-eligible F2P sources of a patch, summed.
F2PAggregate(game, sources) ==
    LET counted(src) == src.countInPulls /\ src.gate = "always"
                        /\ src.id \in f2pSourceIDs(game)
    IN  SumPulls(sources, counted, PullsOf)

\* A resolver that reconciles has returned a patch for cells with a total.
Reconciled ==
    /\ calc.fn = "overrides" /\ calc.done
    /\ calc.game # gameIDEndfield
    /\ "__totalF2P" \in DOMAIN calc.cells
    /\ calc.out.ok

\* The sources after the per-source overrides, before the reconciliation.
Overridden ==
    LET rest == [k \in DOMAIN calc.cells \ {"__totalF2P"} |-> calc.cells[k]]
    IN  IF calc.game = gameIDGenshin THEN calc.patch.sources
        ELSE applyDataPullOverrides(calc.game, calc.patch,
                 parseDataSheetPulls(calc.game, calc.patch, rest)).sources

\* C14: when a resolver has run on a patch with a published F2P total T,
\* the pull count of the adjusted source has grown by exactly T minus the
\* F2P aggregate before, and the F2P aggregate of the patch equals T.
C14_ReconciliationExact ==
    Reconciled
    => LET T == roundToTenth(calc.cells["__totalF2P"])
           before == Overridden
           after == calc.out.patch.sources
       IN  /\ PullsOf(after[2])
                 = PullsOf(before[2]) + (T - F2PAggregate(calc.game, before))
           /\ F2PAggregate(calc.game, after) = T

\* The spec's example: an aggregate of 200.0 against a published 205.0
\* raised the adjusted source by 5.0, to the published total.
C14_Witness ==
    /\ Reconciled
    /\ calc.cells["__totalF2P"] = 20500
    /\ F2PAggregate(calc.game, Overridden) = 20000
    /\ PullsOf(calc.out.patch.sources[2]) = PullsOf(Overridden[2]) + 500
    /\ F2PAggregate(calc.game, calc.out.patch.sources) = 20500

\* C15: a published total that disagrees with the recomputed sum by more
\* than the tolerance makes the parse of the patch fail: the check of the
\* tab's Total F2P / Total Paid rows, and the resolvers' comparison of the
\* published F2P total with the sum they recompute.
C15_DisagreementFails ==
    /\ (calc.fn = "totals" /\ calc.done)
       => LET t == calc.rows
          IN  (\/ t.hasTotalF2P /\ t.expectedF2PPulls # t.actualF2PPulls
               \/ t.hasTotalPaid /\ t.expectedPaidPulls # t.actualPaidPulls)
              => ~calc.ok
    /\ (/\ calc.fn = "overrides" /\ calc.done /\ calc.game # gameIDEndfield
        /\ "__totalF2P" \in DOMAIN calc.cells)
       => LET T == roundToTenth(calc.cells["__totalF2P"])
              tolerance == IF calc.game = gameIDGenshin THEN 5 ELSE 0
          IN  absFloat(T - F2PAggregate(calc.game, Overridden)) > tolerance
              => ~calc.out.ok

\* A resolver returned a patch although the published total was 5 pulls or
\* more away from the sum of the sources.
C15_Witness ==
    /\ Reconciled
    /\ absFloat(calc.cells["__totalF2P"] - F2PAggregate(calc.game, Overridden)) >= 500

\* A Data-sheet resolver has been applied (Endfield, Wuwa, ZZZ, HSR).
DataResolved == calc.fn = "overrides" /\ calc.done /\ calc.game # gameIDGenshin

\* Source i of the resolver's result is source i of the parsed patch but for
\* its pull count, which is the published cell of its id rounded to a
\* tenth, or unset when no cell is published for its id.
OverriddenExactly(i) ==
    LET src == calc.patch.sources[i]
        after == calc.out.patch.sources[i]
        entry == parseDataSheetPulls(calc.game, calc.patch, calc.cells)
        cell == IF i = 1 THEN "other" ELSE IF i = 2 THEN "adjust" ELSE src.id
    IN  /\ [after EXCEPT !.pulls = src.pulls] = src
        /\ after.pulls = IF src.id \in DOMAIN entry
                         THEN <<roundToTenth(calc.cells[cell])>> ELSE <<>>

\* C16 as stated: the resolver sets the pull count of exactly the sources
\* the patch's entry names and leaves all else untouched; the totals rows
\* become no source; a patch without an entry is rejected.
C16_OverridesOnlyNamedSources ==
    DataResolved
    => IF DOMAIN calc.cells = {} THEN ~calc.out.ok
       ELSE /\ calc.out.ok
            /\ [calc.out.patch EXCEPT !.sources = calc.patch.sources] = calc.patch
            /\ Len(calc.out.patch.sources) = Len(calc.patch.sources)
            /\ \A i \in 1..Len(calc.patch.sources) : OverriddenExactly(i)

\* C16 with the reconciliation set apart: as above, except that when the
\* entry carries the F2P total the Wuwa, ZZZ and HSR resolvers may give
\* their adjusted source another pull count.
C16_OverridesFrame ==
    DataResolved
    => IF DOMAIN calc.cells = {} THEN ~calc.out.ok
       ELSE /\ calc.out.ok
            /\ [calc.out.patch EXCEPT !.sources = calc.patch.sources] = calc.patch
            /\ Len(calc.out.patch.sources) = Len(calc.patch.sources)
            /\ \A i \in 1..Len(calc.patch.sources) :
                  \/ OverriddenExactly(i)
                  \/ /\ calc.game # gameIDEndfield
                     /\ "__totalF2P" \in DOMAIN calc.cells
                     /\ calc.patch.sources[i].id = adjustSourceID(calc.game)
                     /\ [calc.out.patch.sources[i] EXCEPT !.pulls = <<>>]
                           = calc.patch.sources[i]

\* An entry with a cell of 2.54 for one source, none for another, and both
\* totals rows: the first source now counts 2.5 pulls.
C16_Witness ==
    /\ DataResolved /\ calc.out.ok
    /\ DOMAIN calc.cells = {"other", "__totalF2P", "__totalPaid"}
    /\ calc.cells["other"] = 254
    /\ calc.out.patch.sources[1].pulls = <<250>>
    /\ calc.out.patch.sources[3].pulls = <<>>

(***************************************************************************)
(* Properties of the scaler expansion.                                     *)
(***************************************************************************)
\* A per_duration scaler has been expanded for a source.
ScalerExpanded ==
    calc.fn = "scaler" /\ calc.done /\ calc.src.scalers[1].type = "per_duration"

\* C17: a per_duration scaler with unit day adds the patch's N days times
\* the per-cycle reward, whatever its cycle length and rounding; with a
\* cycle unit and cycle length C it adds k times the per-cycle reward,
\* where k is the least integer not below N / C for ceil, the greatest not
\* above it for floor, and the nearest one for round.
C17_ScalerExpansion ==
    ScalerExpanded
    => LET scaler == calc.src.scalers[1]
           N == calc.row.durationDays
           C == scaler.everyDays
           added == calc.out - calc.src.rewards
           Cycles(k) ==
               CASE scaler.rounding = "ceil" -> (k - 1) * C < N /\ N <= k * C
                 [] scaler.rounding = "floor" -> k * C <= N /\ N < (k + 1) * C
                 [] scaler.rounding = "round" ->
                        (2 * k - 1) * C <= 2 * N /\ 2 * N < (2 * k + 1) * C
                 [] OTHER -> TRUE
       IN  /\ scaler.unit = "day" => added = N * scaler.rewards
           /\ (scaler.unit = "cycle" /\ C >= 1)
              => \E k \in 0..N : Cycles(k) /\ added = k * scaler.rewards

\* The claim's example: 200 of a currency per day over 54 days adds 10,800.
C17_Witness ==
    /\ ScalerExpanded
    /\ calc.row.durationDays = 54
    /\ calc.src.scalers[1].unit = "day"
    /\ calc.src.scalers[1].rewards = 200
    /\ calc.out - calc.src.rewards = 10800

(***************************************************************************)
(* Properties of parseNumber.                                              *)
(***************************************************************************)
\* parseNumber has returned for a cell.
NumberParsed == calc.fn = "number" /\ calc.done

\* The value returned is the finite number num / den.
Yields(num, den) ==
    calc.out.special = "" /\ calc.out.num * den = num * calc.out.den

\* The cell is made of digits, commas and points and holds both separators,
\* the one occurring last once, with digits on both sides of it; and it is
\* not a cell whose point-separated groups after the first are all of
\* exactly three digits.
LastSeparatorIsDecimal(raw) ==
    LET seps == {i \in 1..Len(raw) : raw[i] \in {44, 46}}
        last == CHOOSE i \in seps : \A j \in seps : j <= i
        groups == Split(raw, 46)
    IN  /\ \A i \in 1..Len(raw) : IsDigit(raw[i]) \/ raw[i] \in {44, 46}
        /\ \E i \in seps : raw[i] = 44
        /\ \E i \in seps : raw[i] = 46
        /\ \A i \in seps : raw[i] = raw[last] => i = last
        /\ \E i \in 1..(last - 1) : IsDigit(raw[i])
        /\ last < Len(raw)
        /\ ~(\A g \in 2..Len(groups) :
                Len(groups[g]) = 3 /\ \A k \in 1..3 : IsDigit(groups[g][k]))

\* The cell is digits grouped by points: a first group of digits and one or
\* more groups of exactly three digits.
ThousandsGrouped(raw) ==
    LET groups == Split(raw, 46)
    IN  /\ \A i \in 1..Len(raw) : IsDigit(raw[i]) \/ raw[i] = 46
        /\ Len(groups) > 1
        /\ groups[1] # <<>>
        /\ \A g \in 2..Len(groups) : Len(groups[g]) = 3

\* C18: parseNumber returns a number for every cell; "1,234.5", "1234.5"
\* and "1.234,5" yield 1234.5; where both separators occur the one
\* occurring last is the decimal separator; a cell of point-separated
\* groups of three digits is read as thousands-grouped; a cell that is
\* empty or holds no digit yields 0.
C18_ParseNumberLocaleTolerant ==
    NumberParsed
    => LET raw == calc.raw
           seps == {i \in 1..Len(raw) : raw[i] \in {44, 46}}
           last == CHOOSE i \in seps : \A j \in seps : j <= i
           whole == SelectSeq(SubSeq(raw, 1, last - 1), IsDigit)
           frac == SubSeq(raw, last + 1, Len(raw))
           scale == <<10, 100, 1000, 10000, 100000>>
       IN  /\ calc.out.special = ""
           /\ raw \in {<<49, 44, 50, 51, 52, 46, 53>>, <<49, 50, 51, 52, 46, 53>>,
                       <<49, 46, 50, 51, 52, 44, 53>>}
              => Yields(12345, 10)
           /\ LastSeparatorIsDecimal(raw)
              => Yields(Atoi(whole \o frac), scale[Len(frac)])
           /\ ThousandsGrouped(raw) => Yields(Atoi(SelectSeq(raw, IsDigit)), 1)
           /\ (\A i \in 1..Len(raw) : ~IsDigit(raw[i])) => Yields(0, 1)

\* The cell "1.234,567", whose last separator is the comma, was read as
\* 1234567.
C18_DecimalsReadAsThousands ==
    /\ NumberParsed
    /\ calc.raw = <<49, 46, 50, 51, 52, 44, 53, 54, 55>>
    /\ Yields(1234567, 1)

\* The cell "nan" was read as the value NaN.
C18_NotANumber ==
    /\ NumberParsed
    /\ calc.raw = <<110, 97, 110>>
    /\ calc.out.special = "nan"

(***************************************************************************)
(* Properties of cancelled runs.                                           *)
(***************************************************************************)
\* The run that returns in this step was cancelled while its sheets were
\* being fetched: before the fetch of one of its sheets had returned.
CancelledInLoop ==
    /\ RunReturned
    /\ run'.cancelAt \in 1..Len(run'.sheetNames)

\* C19: a run cancelled before all its sheets have been fetched and parsed
\* leaves the generated file as it was; a run writes the file at most
\* once, and only when the sheet loop has been through every sheet.
C19_CancelledRunWritesNothing ==
    [][/\ CancelledInLoop => files' = files
       /\ RunReturned
          => LET writes == SelectSeq(run'.effects, LAMBDA e : e = "write")
             IN  /\ Len(writes) <= 1
                 /\ Len(writes) = 1 => run'.idx = Len(run'.sheetNames) + 1]_vars

\* A run of POST /sync, cancelled while its second sheet was being fetched,
\* has written the generated file with the patch of the first.
C19_PartialWrite ==
    /\ run.entry = "sync"
    /\ run.cancelAt = 2
    /\ Len(run.sheetNames) >= 2
    /\ "write" \in Range(run.effects)
    /\ run.result = "ok"

(***************************************************************************)
(* Properties of overlapping runs.                                         *)
(***************************************************************************)
\* Both invocations have returned.
BothReturned == run.pc = "done" /\ peer.pc = "done"

\* The record the generated file holds for a patch id, <<>> when none.
PersistedRecord(id) ==
    LET stored == readGeneratedPatches(files[flags.game])
    IN  SelectSeq(stored, LAMBDA p : patchIDOrFallback(p) = id)

\* The patches a run queued and wrote.
Accepted(r) == IF r.result = "ok" THEN r.patches ELSE <<>>

\* C20: once two overlapping invocations have both returned, the generated
\* file holds a record for every patch id either of them accepted, and for
\* an id both wrote the record of the one that wrote later.
C20_LastWriterWinsPerPatch ==
    BothReturned
    => /\ \A r \in {run, peer} : \A i \in 1..Len(Accepted(r)) :
             PersistedRecord(patchIDOrFallback(Accepted(r)[i])) # <<>>
       /\ \A i \in 1..Len(Accepted(run)), j \in 1..Len(Accepted(peer)) :
             LET mine == Accepted(run)[i]
                 theirs == Accepted(peer)[j]
                 later == IF run.generatedAt > peer.generatedAt THEN mine ELSE theirs
             IN  patchIDOrFallback(mine) = patchIDOrFallback(theirs)
                 => PersistedRecord(patchIDOrFallback(mine))
                       = <<fromGeneratedPatch(toGeneratedPatch(later, flags.game))>>

\* Two invocations overlapped, one added patch 1.0 and the other 1.1, both
\* returned successfully, and the generated file does not hold 1.0.
C20_PatchLost ==
    /\ BothReturned
    /\ run.result = "ok" /\ peer.result = "ok"
    /\ \E i \in 1..Len(run.patches) : patchIDOrFallback(run.patches[i]) = Sheet10
    /\ PersistedRecord(Sheet10) = <<>>
    /\ PersistedRecord(Sheet11) # <<>>

(***************************************************************************)
(* Properties of the classification of parsed patches.                     *)
(***************************************************************************)
\* The patch run r parsed from a sheet that yields one.
FreshPatch(r, sheetName) ==
    LET conditions == r.upstreamAtStart[r.cfg.gameID]
        parsed == ParseSheet(r.cfg.gameID, sheetName, conditions[sheetName])
    IN  ApplyOverrides(r.cfg.gameID, parsed.patch, conditions).patch

\* The records of a patch id in the generated file as run r read it.
PreviousRecords(r, id) ==
    {r.existingGenerated[i] : i \in {k \in 1..Len(r.existingGenerated) :
                                        patchIDOrFallback(r.existingGenerated[k]) = id}}

\* The source ids present in only one of two records, or with different
\* content in the two.
DifferingSources(previous, next) ==
    LET ids(p) == {p.sources[i].id : i \in 1..Len(p.sources)}
        content(p, id) == {p.sources[i] : i \in {k \in 1..Len(p.sources) :
                                                    p.sources[k].id = id}}
    IN  {id \in ids(previous) \cup ids(next) : content(previous, id) # content(next, id)}

\* The sheet loop of the run returning in this step went through all its
\* sheets.
LoopCompleted ==
    /\ RunReturned
    /\ Len(run'.sheetNames) > 0
    /\ run'.idx = Len(run'.sheetNames) + 1

\* C21: a parsed patch is skipped, and its id recorded as skipped, exactly
\* when skip-existing is on and the generated file holds an equivalent
\* record of its id; a patch that is not skipped is queued as "added" when
\* the file holds no record of its id and as "updated" otherwise, and the
\* changed sources of an "updated" entry are the source ids present in only
\* one of the two records or differing between them.
C21_Classification ==
    [][LoopCompleted
       => \A k \in 1..Len(run'.sheetNames) :
             LET sheetName == run'.sheetNames[k]
                 patch == FreshPatch(run', sheetName)
                 id == patchIDOrFallback(patch)
                 previous == PreviousRecords(run', id)
                 queuedAt == {j \in 1..Len(run'.parsedSheetNames) :
                                 run'.parsedSheetNames[j] = sheetName}
             IN  ~BadSheet(run', sheetName)
                 => /\ (queuedAt = {})
                       <=> /\ run'.cfg.skipExisting
                           /\ \E p \in previous : patchesEquivalent(p, patch)
                    /\ queuedAt = {} => id \in Range(run'.skippedPatches)
                    /\ \A j \in queuedAt :
                          LET entry == run'.changeEntries[j]
                          IN  /\ entry.patch = id
                              /\ run'.patches[j] = patch
                              /\ entry.changeType
                                    = IF previous = {} THEN "added" ELSE "updated"
                              /\ \A p \in previous :
                                    entry.changedSources = DifferingSources(p, patch)]_vars

\* A run with skip-existing that skipped one patch as unchanged and queued
\* another as updated, with the sources that differ.
C21_Witness ==
    /\ run.pc = "done" /\ run.result = "ok" /\ run.cfg.skipExisting
    /\ Len(run.skippedPatches) > 0
    /\ \E j \in 1..Len(run.changeEntries) :
          /\ run.changeEntries[j].changeType = "updated"
          /\ run.changeEntries[j].changedSources # {}

\* A run on an absent generated file queued an "updated" entry: two of its
\* tabs have the same patch id.
C21_UpdatedWithoutPrevious ==
    /\ run.pc = "done" /\ run.result = "ok"
    /\ run.existingGenerated = <<>>
    /\ \E j \in 1..Len(run.changeEntries) : run.changeEntries[j].changeType = "updated"

(***************************************************************************)
(* Properties of the change log.                                           *)
(***************************************************************************)
\* C22: a run never modifies or removes a record of the change log; a run
\* that returns successfully, and whose append does not fail, appends one
\* record when it is not a dry-run and queued a patch, and nothing
\* otherwise; the record lists the patches the run queued, each as added
\* or updated.
C22_OneRecordPerChangingRun ==
    [][RunReturned
       => /\ Len(changeLog') >= Len(changeLog)
          /\ SubSeq(changeLog', 1, Len(changeLog)) = changeLog
          /\ run'.result # "ok" => changeLog' = changeLog
          /\ (run'.result = "ok" /\ ~run'.logFailed)
             => IF ~run'.cfg.dryRun /\ Len(run'.patches) > 0
                THEN /\ Len(changeLog') = Len(changeLog) + 1
                     /\ LET listed == changeLog'[Len(changeLog')].updatedPatches
                        IN  /\ Len(listed) = Len(run'.patches)
                            /\ {listed[i].patch : i \in 1..Len(listed)}
                                  = {patchIDOrFallback(run'.patches[i]) :
                                        i \in 1..Len(run'.patches)}
                            /\ \A i \in 1..Len(listed) :
                                  listed[i].changeType \in {"added", "updated"}
                ELSE changeLog' = changeLog]_vars

\* The change log holds the records of two runs, the later of which lists
\* an updated patch.
C22_Witness ==
    /\ run.pc = "done" /\ run.result = "ok" /\ ~run.cfg.dryRun
    /\ Len(changeLog) = 2
    /\ \E i \in 1..Len(changeLog[2].updatedPatches) :
          changeLog[2].updatedPatches[i].changeType = "updated"

(***************************************************************************)
(* Properties of the ids of the generated file.                            *)
(***************************************************************************)
\* No two records of a generated file have the same id.
UniqueIDs(file) ==
    \A i, j \in 1..Len(Persisted(file)) :
       Persisted(file)[i].id = Persisted(file)[j].id => i = j

\* C23 as stated: once a run has returned, no two records of the generated
\* file share an id, whatever the file held before.
C23_IDsUniqueAfterAnyRun ==
    clock > 0 => UniqueIDs(files[flags.game])

\* C23 for the runs that write: a generated file a run has written holds no
\* two records of one id, also when two sheets of the run have the same
\* patch id and when the file held duplicates before; a run that does not
\* write leaves the records as they were.
C23_IDsUniqueAfterWrite ==
    [][RunReturned
       => IF Wrote(run') THEN UniqueIDs(files'[run'.cfg.gameID])
          ELSE files' = files]_vars

\* A run read a file with two records of one id, queued two patches of one
\* id, and wrote.
C23_Witness ==
    /\ run.pc = "done" /\ Wrote(run)
    /\ \E i, j \in 1..Len(run.existingGenerated) :
          i # j /\ run.existingGenerated[i].id = run.existingGenerated[j].id
    /\ \E i, j \in 1..Len(run.patches) :
          i # j /\ run.patches[i].id = run.patches[j].id

(***************************************************************************)
(* Discovery of the version sheets of a spreadsheet that is not published. *)
(***************************************************************************)
MaxMajor == 2
MaxMinor == 4

\* versionLikeSheetPattern on the normalized name:
\* ^\d+\.\d+(?:\*+)?(?:\s*(?:\([^)]+\)|[A-Za-z][A-Za-z0-9 ._-]*))?$
isVersionLikeSheetName(raw) ==
    \E s \in {normalizeSheetNameForMatch(raw)} :
    \E maj \in {DigitPrefix(s)} :
    \E afterMaj \in {SubSeq(s, Len(maj) + 1, Len(s))} :
    \E min \in {IF afterMaj # <<>> /\ Head(afterMaj) = 46
                THEN DigitPrefix(Tail(afterMaj)) ELSE <<>>} :
    \E afterMin \in {SubSeq(afterMaj, Len(min) + 2, Len(afterMaj))} :
    \E stars \in {Cardinality({k \in 1..Len(afterMin) :
                                  \A i \in 1..k : afterMin[i] = 42})} :
    \E suffix \in {TrimLeft(SubSeq(afterMin, stars + 1, Len(afterMin)))} :
       LET isLetter(c) == (c >= 65 /\ c <= 90) \/ (c >= 97 /\ c <= 122)
       IN  /\ maj # <<>> /\ min # <<>>
           /\ \/ stars = Len(afterMin)
              \/ /\ Len(suffix) >= 3
                 /\ Head(suffix) = 40 /\ suffix[Len(suffix)] = 41
                 /\ \A i \in 2..(Len(suffix) - 1) : suffix[i] # 41
              \/ /\ suffix # <<>>
                 /\ isLetter(Head(suffix))
                 /\ \A i \in 2..Len(suffix) :
                       \/ isLetter(suffix[i]) \/ IsDigit(suffix[i])
                       \/ suffix[i] \in {32, 46, 95, 45}

\* The names of a list that pass isVersionLikeSheetName, in their order.
RECURSIVE versionLikeNames(_)
versionLikeNames(names) ==
    IF names = <<>> THEN <<>>
    ELSE IF isVersionLikeSheetName(Head(names))
         THEN <<Head(names)>> \o versionLikeNames(Tail(names))
         ELSE versionLikeNames(Tail(names))

\* The tab names a page of the spreadsheet can list: "Data" besides the
\* version sheets.
SheetData == <<68, 97, 116, 97>>

\* The titles of the worksheet feed, unless the request or the JSON fails.
FeedOutcomes ==
    {NoPage} \cup {[ok |-> TRUE, names |-> titles] :
                      titles \in {<<>>, <<SheetData>>, <<Sheet11, SheetData, Sheet10>>}}

\* The captions of the edit page, unless the request fails.
HtmlOutcomes ==
    {NoPage} \cup {[ok |-> TRUE, names |-> captions] :
                      captions \in {<<>>, <<SheetData>>,
                                    <<Sheet10STC, <<32>> \o Sheet11>>}}

\* discoverSheetNamesFromHTML: the version-like captions, unique and sorted;
\* an error without captions or without version-like ones.
discoverSheetNamesFromHTML(page) ==
    LET names == IF ~page.ok THEN <<>>
                 ELSE sortVersionStrings(uniqueSheetNames(
                          versionLikeNames(page.names)))
    IN  [ok |-> names # <<>>, names |-> names]

\* A faulty collection: the edit page is not consulted.
collectFeedOnly(feed, html) ==
    sortVersionStrings(uniqueSheetNames(
        IF ~feed.ok THEN <<>> ELSE versionLikeNames(feed.names)))

\* discoverSheetNames, lines 1003-1033: the names of the feed followed by
\* those of the edit page, unique and sorted.
collectedNames(feed, html) ==
    LET feedNames == IF ~feed.ok THEN <<>>
                     ELSE versionLikeNames(feed.names)
        htmlNames == discoverSheetNamesFromHTML(html)
    IN  sortVersionStrings(uniqueSheetNames(
            feedNames \o (IF htmlNames.ok THEN htmlNames.names ELSE <<>>)))

\* majorCandidates := []int{1, 0, 2, 3, 4, 5}, cut at MaxMajor.
majorCandidates == SelectSeq(<<1, 0, 2, 3, 4, 5>>, LAMBDA major : major <= MaxMajor)

\* A channel one place short of the number of tasks.
resultsCapacityShort == Len(majorCandidates) - 1

\* results := make(chan probeResult, len(majorCandidates))
resultsCapacity == Len(majorCandidates)

\* fmt.Sprintf("%d.%d", major, minor)
candidate(major, minor) == Itoa(major) \o <<46>> \o Itoa(minor)

\* A faulty loop that gives a major up at its first miss.
stopAtAnyMiss(minor, missStreak) == TRUE

\* The breaks of the minor loop after a miss, missStreak counting it.
stopAtMiss(minor, missStreak) == minor = 0 \/ missStreak >= 2

\* discoverSheetNames up to the probe: the feed and the edit page are
\* requested one after the other; their names are returned when there are
\* any, and otherwise the probe tasks are started, one per candidate major.
Discover ==
    /\ disc.pc = "idle"
    /\ \E feed \in FeedOutcomes, html \in HtmlOutcomes :
          LET collected == collectedNames(feed, html)
              called == [disc EXCEPT !.feed = feed, !.html = html,
                                     !.collected = collected,
                                     !.requests = <<"feed", "html">>]
          IN  disc' = IF collected # <<>>
                      THEN [called EXCEPT !.pc = "done"]
                      ELSE [called EXCEPT
                               !.pc = "tasks",
                               !.requests = @ \o <<"probe">>,
                               !.task = [i \in 1..Len(majorCandidates) |-> "go"]]
    /\ UNCHANGED <<flags, upstream, tabs, events, files, changeLog, branches, clock,
                   run, all, lists, http, calc, peer>>

\* The task of a major requests "<major>.0" and parses the answer.
ProbeFetch(i) ==
    /\ disc.pc = "tasks"
    /\ disc.task[i] = "go"
    /\ \E ok \in BOOLEAN :
          disc' = [disc EXCEPT !.task[i] = IF ok THEN "hit" ELSE "miss"]
    /\ UNCHANGED <<flags, upstream, tabs, events, files, changeLog, branches, clock,
                   run, all, lists, http, calc, peer>>

\* results <- probeResult{...}; wg.Done(). The send waits while the channel
\* is full.
ProbeSend(i) ==
    /\ disc.pc = "tasks"
    /\ disc.task[i] \in {"hit", "miss"}
    /\ Len(disc.results) < resultsCapacity
    /\ disc' = [disc EXCEPT
                   !.task[i] = IF @ = "hit" THEN "hitSent" ELSE "missSent",
                   !.results = Append(@, [major |-> majorCandidates[i],
                                          ok |-> disc.task[i] = "hit"])]
    /\ UNCHANGED <<flags, upstream, tabs, events, files, changeLog, branches, clock,
                   run, all, lists, http, calc, peer>>

\* The index in majorCandidates of the next major of majorSet after index
\* at; Len(majorCandidates) + 1 when there is none.
RECURSIVE nextMajor(_, _)
nextMajor(majorSet, at) ==
    IF at + 1 > Len(majorCandidates) THEN at + 1
    ELSE IF majorCandidates[at + 1] \in majorSet THEN at + 1
    ELSE nextMajor(majorSet, at + 1)

\* What a finished discoverSheetNames call returns: the collected names
\* when there are any, and otherwise the probed names unique and sorted, an
\* error when there are none.
discoverReturn(d) ==
    LET names == IF d.collected # <<>> THEN d.collected
                 ELSE sortVersionStrings(uniqueSheetNames(d.names))
    IN  [names |-> names, err |-> names = <<>>]

\* Moves the minor loop to the major at index at; after the last major the
\* call returns discoverReturn.
enterMajor(d, at) ==
    IF at > Len(majorCandidates) THEN [d EXCEPT !.at = at, !.pc = "done"]
    ELSE [d EXCEPT !.at = at, !.minor = 0, !.missStreak = 0]

\* wg.Wait(); close(results); the channel is drained into majorSet.
ProbeCollect ==
    /\ disc.pc = "tasks"
    /\ \A i \in 1..Len(majorCandidates) : disc.task[i] \in {"hitSent", "missSent"}
    /\ LET majorSet == {disc.results[k].major :
                           k \in {n \in 1..Len(disc.results) : disc.results[n].ok}}
       IN  disc' = enterMajor([disc EXCEPT !.pc = "minors", !.results = <<>>,
                                           !.majorSet = majorSet],
                              nextMajor(majorSet, 0))
    /\ UNCHANGED <<flags, upstream, tabs, events, files, changeLog, branches, clock,
                   run, all, lists, http, calc, peer>>

\* One turn of the minor loop: "<major>.<minor>" is requested and parsed.
ProbeMinor ==
    /\ disc.pc = "minors"
    /\ \E ok \in BOOLEAN :
          LET major == majorCandidates[disc.at]
              probed == [disc EXCEPT
                            !.probes = Append(@, [major |-> major,
                                                  minor |-> disc.minor, ok |-> ok])]
              missStreak == disc.missStreak + 1
              leave(d) == enterMajor(d, nextMajor(disc.majorSet, disc.at))
              turn(d) == IF disc.minor + 1 > MaxMinor THEN leave(d)
                         ELSE [d EXCEPT !.minor = disc.minor + 1]
          IN  disc' =
                 IF ~ok
                 THEN IF stopAtMiss(disc.minor, missStreak)
                      THEN leave([probed EXCEPT !.missStreak = missStreak])
                      ELSE turn([probed EXCEPT !.missStreak = missStreak])
                 ELSE turn([probed EXCEPT
                               !.missStreak = 0,
                               !.names = Append(@, candidate(major, disc.minor))])
    /\ UNCHANGED <<flags, upstream, tabs, events, files, changeLog, branches, clock,
                   run, all, lists, http, calc, peer>>

InitDiscover ==
    /\ flags \in [game : {defaultGameID}, skipExisting : {FALSE}]
    /\ tabs = [g \in Games |-> <<>>]
    /\ lists = NoLists
    /\ InitCommon
    /\ InitCommand

NextDiscover ==
    \/ Discover
    \/ \E i \in 1..Len(majorCandidates) : ProbeFetch(i)
    \/ \E i \in 1..Len(majorCandidates) : ProbeSend(i)
    \/ ProbeCollect
    \/ ProbeMinor

SpecDiscover == InitDiscover /\ [][NextDiscover]_vars

\* The Go scheduler runs every task that can take a step, and every request
\* ends, by an answer or by the timeout of its context.
SpecDiscoverFair == SpecDiscover /\ WF_vars(NextDiscover)

(***************************************************************************)
(* Properties of discovery.                                                *)
(***************************************************************************)
\* The version-shaped names a page listed; none when its request failed.
ListedBy(page) ==
    IF ~page.ok THEN {}
    ELSE {page.names[i] :
             i \in {k \in 1..Len(page.names) : isVersionLikeSheetName(page.names[k])}}

DiscoveryCalled == disc.pc \in {"tasks", "minors", "done"}
Probed == Has(disc.requests, "probe")

\* A list without two names of one trimmed form, in version order.
UniqueAndSorted(names) ==
    /\ \A i, j \in 1..Len(names) :
          TrimSpace(names[i]) = TrimSpace(names[j]) => i = j
    /\ \A i \in 1..(Len(names) - 1) : ~versionLess(names[i + 1], names[i])

\* C24: for a spreadsheet that is not published, when the feed or the edit
\* page lists a version-shaped name, discovery returns the de-duplicated
\* union of the names of both and probes nothing; it probes only when both
\* list none; and it fails exactly when the feed, the edit page and the
\* probe all yield no name.
C24_DiscoveryFallback ==
    DiscoveryCalled =>
        LET union == ListedBy(disc.feed) \cup ListedBy(disc.html)
        IN  /\ union # {} =>
                 /\ disc.pc = "done" /\ ~discoverReturn(disc).err /\ ~Probed
                 /\ {TrimSpace(n) : n \in Range(discoverReturn(disc).names)}
                       = {TrimSpace(n) : n \in union}
                 /\ Range(discoverReturn(disc).names) \subseteq union
                 /\ UniqueAndSorted(discoverReturn(disc).names)
            /\ Probed => union = {}
            /\ disc.pc = "done" =>
                 (discoverReturn(disc).err <=> (union = {} /\ disc.names = <<>>))
            /\ (disc.pc = "done" /\ Probed /\ ~discoverReturn(disc).err) =>
                 /\ Range(discoverReturn(disc).names) = Range(disc.names)
                 /\ UniqueAndSorted(discoverReturn(disc).names)

\* Discovery returned the union of a feed and an edit page that list
\* different names and one name in common.
C24_Witness ==
    /\ disc.pc = "done" /\ ~discoverReturn(disc).err
    /\ ListedBy(disc.feed) \ ListedBy(disc.html) # {}
    /\ ListedBy(disc.html) \ ListedBy(disc.feed) # {}
    /\ Len(discoverReturn(disc).names) < Cardinality(ListedBy(disc.feed))
                            + Cardinality(ListedBy(disc.html))

\* The positions in the log of the probes of the minor loop of a major.
MinorProbes(major) == {k \in 1..Len(disc.probes) : disc.probes[k].major = major}

\* The minor loop of a major probes the minors 0, 1, 2, ... one after the
\* other, and nothing after a miss at minor 0; a major whose task missed
\* is not probed at all.
ProbedInOrder(major) ==
    /\ \A k \in MinorProbes(major) :
          /\ disc.probes[k].minor = Cardinality({j \in MinorProbes(major) : j < k})
          /\ (disc.probes[k].minor = 0 /\ ~disc.probes[k].ok)
                => Cardinality(MinorProbes(major)) = 1
    /\ major \notin disc.majorSet => MinorProbes(major) = {}

\* Probes k and k + 1 of a major both missed.
TwoMisses(major, k) ==
    /\ k \in MinorProbes(major) /\ k + 1 \in MinorProbes(major)
    /\ ~disc.probes[k].ok /\ ~disc.probes[k + 1].ok

\* The names discovered are the hits of the minor loops.
NamesAreHits ==
    Range(disc.names) =
        {candidate(disc.probes[k].major, disc.probes[k].minor) :
            k \in {j \in 1..Len(disc.probes) : disc.probes[j].ok}}

HitAtMinorZero(major) ==
    \E k \in MinorProbes(major) : disc.probes[k].minor = 0 /\ disc.probes[k].ok

LastProbe(major) == CHOOSE k \in MinorProbes(major) : \A j \in MinorProbes(major) : j <= k

\* C25 as stated: a major that misses at minor 0 is probed no further; a
\* major that hits at minor 0 is probed minor by minor, and its probing
\* stops exactly after the second of two consecutive misses, so that its
\* names are the hits before the first two consecutive misses.
C25_ProbeEarlyStop ==
    /\ \A major \in Range(majorCandidates) : ProbedInOrder(major)
    /\ NamesAreHits
    /\ disc.pc = "done" =>
          \A major \in Range(majorCandidates) :
             HitAtMinorZero(major) =>
                /\ TwoMisses(major, LastProbe(major) - 1)
                /\ \A k \in MinorProbes(major) :
                      TwoMisses(major, k) => k + 1 = LastProbe(major)

\* C25 with the end of the minor loop: as stated, except that the probing
\* of a major also stops after its last minor (50 in the code) when no two
\* consecutive misses came before.
C25_ProbeEarlyStopCapped ==
    /\ \A major \in Range(majorCandidates) : ProbedInOrder(major)
    /\ NamesAreHits
    /\ disc.pc = "done" =>
          \A major \in Range(majorCandidates) :
             HitAtMinorZero(major) =>
                /\ \/ TwoMisses(major, LastProbe(major) - 1)
                   \/ disc.probes[LastProbe(major)].minor = MaxMinor
                /\ \A k \in MinorProbes(major) :
                      TwoMisses(major, k) => k + 1 = LastProbe(major)

\* The probe returned after one major missed at minor 0 in its minor loop
\* and another hit, missed, hit again and then missed twice.
C25_Witness ==
    /\ disc.pc = "done"
    /\ \E major \in Range(majorCandidates) :
          /\ MinorProbes(major) # {}
          /\ ~HitAtMinorZero(major)
    /\ \E major \in Range(majorCandidates) :
          /\ HitAtMinorZero(major)
          /\ Cardinality(MinorProbes(major)) = 5
          /\ TwoMisses(major, LastProbe(major) - 1)
          /\ \E k \in MinorProbes(major) :
                /\ ~disc.probes[k].ok
                /\ k + 1 \in MinorProbes(major) /\ disc.probes[k + 1].ok

\* No task that holds a result finds the channel full.
NoTaskBlocked ==
    \A i \in 1..Len(disc.task) :
       disc.task[i] \in {"hit", "miss"} => Len(disc.results) < resultsCapacity

\* Once the tasks are collected, the majors of the minor loops are those
\* whose task hit, probed in the order of majorCandidates, and the names
\* returned are the hits of the minor loops, unique and sorted.
ResultFollowsHits ==
    (Probed /\ disc.pc \in {"minors", "done"}) =>
        /\ disc.majorSet = {majorCandidates[i] :
                               i \in {k \in 1..Len(disc.task) : disc.task[k] = "hitSent"}}
        /\ \A j, k \in 1..Len(disc.probes) :
              j < k => \E a, b \in 1..Len(majorCandidates) :
                          /\ a <= b
                          /\ majorCandidates[a] = disc.probes[j].major
                          /\ majorCandidates[b] = disc.probes[k].major
        /\ NamesAreHits
        /\ disc.pc = "done" =>
              /\ Range(discoverReturn(disc).names) = Range(disc.names)
              /\ UniqueAndSorted(discoverReturn(disc).names)

\* C27: in every interleaving of the probe tasks no task waits on the result
\* channel, the call returns, and the names returned are determined by the
\* outcomes of the probes, whatever the order in which the tasks finish.
C27_ProbeSafeUnderInterleaving ==
    /\ [](NoTaskBlocked /\ ResultFollowsHits)
    /\ <>(disc.pc = "done")

\* Every task has sent its result, and the task of the last candidate major
\* was the first to send, with a hit.
C27_Witness ==
    /\ disc.pc = "tasks"
    /\ Len(disc.results) = Len(majorCandidates)
    /\ disc.results[1].major = majorCandidates[Len(majorCandidates)]
    /\ disc.results[1].ok
    /\ ~disc.results[2].ok

(***************************************************************************)
(* Published spreadsheets: the cache of sheet handles and the calls that   *)
(* use it, discoverSheetNames and fetchSheetCSV, from overlapping runs.    *)
(***************************************************************************)
MaxCalls == 3

PublishedA == <<50, 80, 65, 67, 88, 45, 97>>    \* "2PACX-a"
PublishedB == <<50, 80, 65, 67, 88, 45, 98>>    \* "2PACX-b"
PlainID == <<49, 65, 98>>                       \* "1Ab"

\* The ids of the calls; one of them is "2PACX-a" followed by a blank.
SpreadsheetIDs == {PublishedA, PublishedA \o <<32>>, PublishedB, PlainID}

\* strings.HasPrefix(strings.TrimSpace(raw), "2PACX-")
isPublishedSpreadsheetID(raw) ==
    /\ Len(TrimSpace(raw)) >= 6
    /\ SubSeq(TrimSpace(raw), 1, 6) = <<50, 80, 65, 67, 88, 45>>

\* What the landing page of a published spreadsheet yields: an error, no
\* sheet at all, or the handle of every sheet by name.
LandingOutcomes ==
    {NoPage, [ok |-> TRUE, names |-> <<>>],
     [ok |-> TRUE, names |-> (SheetData :> "0" @@ Sheet10 :> "10")],
     [ok |-> TRUE, names |-> (SheetData :> "0" @@ Sheet11 :> "11" @@ Sheet10STC :> "12")]}

\* A cache that forgets what is stored.
cacheDrop(cache, key, gidByName) == cache

\* publishedSheetGIDCache.Store(cacheKey, gidByName)
cacheStore(cache, key, gidByName) ==
    [k \in DOMAIN cache \cup {key} |-> IF k = key THEN gidByName ELSE cache[k]]

\* publishedSheetGIDCache.Load(cacheKey) with a map that is not empty.
cacheHit(cache, key) == key \in DOMAIN cache /\ cache[key] # <<>>

\* The orders in which a range over the map can visit its names.
Iterations(gidByName) ==
    {order \in [1..Cardinality(DOMAIN gidByName) -> DOMAIN gidByName] :
        \A i, j \in DOMAIN order : order[i] = order[j] => i = j}

\* discoverPublishedSheetNames on the map, visited in the given order.
discoverPublishedSheetNames(order) ==
    LET names == sortVersionStrings(uniqueSheetNames(versionLikeNames(order)))
    IN  [ok |-> names # <<>>, names |-> names]

\* fetchSheetCSV on a published spreadsheet: the handles of the sheet, by
\* its name or else by its normalized name.
publishedHandles(gidByName, sheetName) ==
    IF sheetName \in DOMAIN gidByName THEN {gidByName[sheetName]}
    ELSE {gidByName[n] : n \in {m \in DOMAIN gidByName :
              normalizeSheetNameForMatch(m) = normalizeSheetNameForMatch(sheetName)}}

\* The rest of a call once it holds the map: the names of a discovery, or
\* the request of the sheet by its handle.
withHandles(call, gidByName) ==
    IF call.kind = "discover"
    THEN {[call EXCEPT !.pc = "returned", !.ok = answer.ok, !.names = answer.names] :
             answer \in {discoverPublishedSheetNames(order) :
                            order \in Iterations(gidByName)}}
    ELSE IF publishedHandles(gidByName, call.sheet) = {}
         THEN {[call EXCEPT !.pc = "returned", !.ok = FALSE]}
         ELSE {[call EXCEPT !.pc = "returned", !.ok = TRUE,
                            !.requests = Append(@, "csv:" \o gid)] :
                  gid \in publishedHandles(gidByName, call.sheet)}

\* A run calls discoverSheetNames or fetchSheetCSV. For a spreadsheet that
\* is not published the feed and the edit page, or the sheet by its name,
\* are requested. For a published one getPublishedSheetGIDs loads the map
\* from the cache, and the call goes on with it when it is there.
PublishedCall ==
    /\ Len(disc.calls) < MaxCalls
    /\ \E kind \in {"discover", "fetch"}, id \in SpreadsheetIDs, sheet \in {Sheet10} :
          LET call == [kind |-> kind, id |-> id, sheet |-> sheet, pc |-> "loading",
                       resolved |-> \E k \in 1..Len(disc.landings) :
                                       /\ disc.landings[k].key = TrimSpace(id)
                                       /\ disc.landings[k].ok,
                       ok |-> FALSE, names |-> <<>>, requests |-> <<>>]
          IN  \E next \in
                 IF ~isPublishedSpreadsheetID(id)
                 THEN {[call EXCEPT
                          !.pc = "returned",
                          !.requests = IF kind = "discover" THEN <<"feed", "html">>
                                       ELSE <<"csv">>]}
                 ELSE IF cacheHit(disc.cache, TrimSpace(id))
                      THEN withHandles(call, disc.cache[TrimSpace(id)])
                      ELSE {[call EXCEPT !.pc = "resolving"]} :
                 disc' = [disc EXCEPT !.calls = Append(@, next)]
    /\ UNCHANGED <<flags, upstream, tabs, events, files, changeLog, branches, clock,
                   run, all, lists, http, calc, peer>>

\* discoverPublishedSheetGIDs and the rest of getPublishedSheetGIDs: the
\* landing page is requested; a map with at least one sheet is stored in
\* the cache and the call goes on with it.
PublishedResolve(n) ==
    /\ n \in 1..Len(disc.calls)
    /\ disc.calls[n].pc = "resolving"
    /\ \E page \in LandingOutcomes :
          LET call == [disc.calls[n] EXCEPT !.requests = Append(@, "pubhtml")]
              key == TrimSpace(call.id)
              found == page.ok /\ page.names # <<>>
              landed == [disc EXCEPT !.landings = Append(@, [key |-> key, ok |-> found])]
          IN  IF ~found
              THEN disc' = [landed EXCEPT !.calls[n] = [call EXCEPT !.pc = "returned"]]
              ELSE \E next \in withHandles(call, page.names) :
                      disc' = [landed EXCEPT
                                  !.calls[n] = next,
                                  !.cache = cacheStore(@, key, page.names)]
    /\ UNCHANGED <<flags, upstream, tabs, events, files, changeLog, branches, clock,
                   run, all, lists, http, calc, peer>>

NextPublished ==
    \/ PublishedCall
    \/ \E n \in 1..MaxCalls : PublishedResolve(n)

SpecPublished == InitDiscover /\ [][NextPublished]_vars

\* The calls on a published spreadsheet.
PublishedCalls ==
    {n \in 1..Len(disc.calls) : isPublishedSpreadsheetID(disc.calls[n].id)}

\* C26: a call on a published spreadsheet requests neither the feed nor the
\* edit page nor a sheet by its name, only the landing page and sheets by
\* their handle; a discovery returns the version-shaped names of the map;
\* and a call that begins after a landing page of its spreadsheet id was
\* resolved requests no landing page.
C26_PublishedUsesCache ==
    \A n \in PublishedCalls :
       LET call == disc.calls[n]
       IN  /\ \A k \in 1..Len(call.requests) :
                 call.requests[k] \notin {"feed", "html", "probe", "csv"}
           /\ call.resolved =>
                 /\ call.pc = "returned"
                 /\ ~Has(call.requests, "pubhtml")
           /\ (call.pc = "returned" /\ call.kind = "discover" /\ call.ok) =>
                 /\ cacheHit(disc.cache, TrimSpace(call.id))
                 /\ \E later \in LandingOutcomes :
                       /\ later.ok
                       /\ Range(call.names) =
                             {m \in DOMAIN later.names : isVersionLikeSheetName(m)}

\* Two calls of one spreadsheet id, written with and without a blank, of
\* which the second began after the first had resolved the map and
\* returned from the cache, and a call of another spreadsheet id that
\* requested its own landing page.
C26_Witness ==
    \E a, b, c \in PublishedCalls :
       /\ a < b
       /\ disc.calls[a].id # disc.calls[b].id
       /\ TrimSpace(disc.calls[a].id) = TrimSpace(disc.calls[b].id)
       /\ Has(disc.calls[a].requests, "pubhtml") /\ disc.calls[a].ok
       /\ disc.calls[b].resolved /\ disc.calls[b].ok
       /\ disc.calls[b].kind = "fetch"
       /\ TrimSpace(disc.calls[c].id) # TrimSpace(disc.calls[a].id)
       /\ Has(disc.calls[c].requests, "pubhtml")

(***************************************************************************)
(* Properties of the stages after the sheet loop.                          *)
(***************************************************************************)
\* C28: a run outside dry-run that queued no patch leaves the generated
\* files, records and GeneratedMeta alike, as they were, and appends no
\* change-log record.
C28_NothingQueuedWritesNothing ==
    [][(RunReturned /\ ~run'.cfg.dryRun /\ run'.patches = <<>>)
       => /\ files' = files
          /\ changeLog' = changeLog
          /\ ~Wrote(run')]_vars

\* A run outside dry-run returned successfully after skipping every patch it
\* parsed, and the generated file still carries the timestamp of an
\* earlier run.
C28_Witness ==
    /\ run.pc = "done" /\ run.result = "ok"
    /\ ~run.cfg.dryRun
    /\ run.patches = <<>> /\ Len(run.skippedPatches) > 0
    /\ files[run.cfg.gameID] # NoFile
    /\ GeneratedMetaOf(run).generatedAt > files[run.cfg.gameID].meta.generatedAt

\* C29: a change-log record is appended only by a run that wrote the
\* generated file before; a run whose file write fails returns the error,
\* leaves the file and appends nothing; a run whose append fails returns
\* success, keeps the file it wrote and notes the failure, so that every run
\* that wrote the file returns success.
C29_LogAfterWrite ==
    [][RunReturned
       => /\ changeLog' # changeLog =>
                \E i, j \in 1..Len(run'.effects) :
                   i < j /\ run'.effects[i] = "write" /\ run'.effects[j] = "log"
          /\ run'.err = "write" =>
                /\ run'.result = "error"
                /\ files' = files /\ changeLog' = changeLog
          /\ run'.logFailed =>
                /\ run'.result = "ok"
                /\ Wrote(run')
                /\ files'[run'.cfg.gameID] =
                      writeGeneratedFile(run'.allPatches, GeneratedMetaOf(run'))
                /\ changeLog' = changeLog
          /\ Wrote(run') => run'.result = "ok"]_vars

\* A run wrote the generated file, failed to append its change-log record
\* and returned success.
C29_Witness ==
    /\ run.pc = "done" /\ run.result = "ok"
    /\ run.logFailed /\ Wrote(run)
    /\ changeLog = <<>>

\* The sheet loop of a returned run ended without an error.
LoopSucceeded(r) == r.result = "ok" \/ r.err \in {"branch", "write"}

\* C30: a run attempts the branch exactly when createBranch is set and its
\* sheet loop succeeded, in dry-run and with nothing queued as well, and
\* the branch exists from then on although no file may be written; the
\* configuration of a game of the all-games run never asks for a branch.
C30_BranchDependsOnlyOnFlag ==
    [][RunReturned
       => /\ (Has(run'.effects, "branch") \/ run'.err = "branch")
                <=> (run'.cfg.createBranch /\ LoopSucceeded(run'))
          /\ IF Has(run'.effects, "branch")
             THEN branches' = Append(branches, run'.generatedAt)
             ELSE branches' = branches
          /\ \A g \in Games : ~SyncAllGameConfig(run'.cfg, g).createBranch]_vars

\* A dry run that queued nothing created a branch and wrote no file.
C30_Witness ==
    /\ run.pc = "done" /\ run.result = "ok"
    /\ run.cfg.dryRun /\ run.cfg.createBranch
    /\ run.patches = <<>>
    /\ Has(run.effects, "branch") /\ ~Wrote(run)
    /\ branches # <<>>

\* The all-games run leaves the branches alone.
SyncAllCreatesNoBranch == [][branches' = branches]_vars

====
